---- MODULE Spec2Model ----
(***************************************************************************)
(* Model of the schema loader MetaSet (src/edgedb/server/yaml/__init__.py):*)
(* MetaSet.construct reads the raw declarations of one module into the     *)
(* global and the local index (read_atoms, read_link_properties,           *)
(* read_links, read_concepts) and, for a top-level load, orders and merges *)
(* every kind (order_concepts, order_links, order_link_properties,         *)
(* order_computables, order_atoms) and fills the final index.              *)
(*                                                                         *)
(* One behaviour is one load: Init draws the raw declaration tree, each    *)
(* action is one method call of construct, an exception ends the load in   *)
(* pc = "failed" with the exception recorded in err.                       *)
(***************************************************************************)
EXTENDS Integers, Sequences, FiniteSets, TLC

VARIABLES
    pc,           \* position of MetaSet.construct
    data,         \* the raw declaration tree and the import context
    globalindex,  \* import_context.metaindex: the declarations, in insertion order
    localindex,   \* names registered in the local index, in insertion order
    finalindex,   \* names inserted in self.finalindex, in insertion order
    ordered,      \* the lists order_* returned to construct
    err           \* the exception that ended the load, NoErr while none

vars == <<pc, data, globalindex, localindex, finalindex, ordered, err>>

-----------------------------------------------------------------------------
(* Names.  A qualified name is module "." local name (caos.Name).          *)

BuiltinModule == "semantix.caos.builtins"
UserModule == "m"
Modules == {UserModule, BuiltinModule}

\* every local name a raw declaration tree may use
LocalNames == {"a1", "a2", "a3", "A", "B", "C", "l1", "l2", "l3", "p1", "p2",
               "x", "y", "zz", "str", "int", "Object", "BaseObject", "link",
               "link_property"}

QName(module, name) == module \o "." \o name

QualifiedNames == {QName(m, n) : m \in Modules, n \in LocalNames}

\* caos.Name.is_qualified
IsQualified(ref) == ref \in QualifiedNames

\* caos.Name(ref).module of a qualified reference
ModuleOf(ref) == CHOOSE m \in Modules : \E n \in LocalNames : ref = QName(m, n)

\* proto.Link.generate_name / LinkProperty.generate_name / Computable.generate_name:
\* the local name of a specialized pointer, derived from (source, target, pointer)
GenerateName(source, target, qname) == source \o "|" \o qname \o "|" \o target

-----------------------------------------------------------------------------
(* Exceptions.                                                             *)

NoErr == [cls |-> "", what |-> "", ctx |-> "", names |-> {}]

\* caos.MetaError raised without context
CaosMetaError(what, names) ==
    [cls |-> "caos.MetaError", what |-> what, ctx |-> "", names |-> names]

\* MetaError(error, context) of this module: a caos.MetaError with the context
MetaError(what, ctx, names) ==
    [cls |-> "MetaError", what |-> what, ctx |-> ctx, names |-> names]

\* any other Python exception (AssertionError, AttributeError, ...)
PyError(cls, what) == [cls |-> cls, what |-> what, ctx |-> "", names |-> {}]

\* caosql_exc.CaosQLReferenceError of the expression service; names holds the
\* context of the declaration whose expression has the unresolved reference
CaosQLReferenceError(ctx) ==
    [cls |-> "CaosQLReferenceError", what |-> "reference", ctx |-> "", names |-> {ctx}]

\* MetaError derives from caos.MetaError: both are schema errors
IsSchemaError(e) == e.cls \in {"caos.MetaError", "MetaError"}

-----------------------------------------------------------------------------
(* Declarations.                                                           *)

NoExpr == [text |-> "", norm |-> FALSE, cols |-> <<>>, refs |-> {}, raises |-> FALSE]

\* a prototype object; every kind carries every field
Decl(kind, name, module) ==
    [kind |-> kind, name |-> name, module |-> module, normal |-> name,
     base |-> <<>>, final |-> FALSE, title |-> "", automatic |-> FALSE,
     source |-> "", target |-> "", mapping |-> "", required |-> "",
     default |-> <<>>, rawcons |-> {}, constraints |-> {},
     rawpcons |-> <<>>, rawacons |-> <<>>, abstract_constraints |-> {},
     indexes |-> <<>>,
     pointers |-> <<>>, own |-> <<>>,
     expr |-> NoExpr, is_local |-> "", is_atom |-> ""]

\* the declarations of semantix.caos.builtins, loaded before any user module
BuiltinDecls ==
    << Decl("atom", QName(BuiltinModule, "str"), BuiltinModule),
       Decl("atom", QName(BuiltinModule, "int"), BuiltinModule),
       Decl("link_property", QName(BuiltinModule, "link_property"), BuiltinModule),
       Decl("link", QName(BuiltinModule, "link"), BuiltinModule),
       Decl("concept", QName(BuiltinModule, "BaseObject"), BuiltinModule),
       [Decl("concept", QName(BuiltinModule, "Object"), BuiltinModule)
           EXCEPT !.base = <<QName(BuiltinModule, "BaseObject")>>] >>

-----------------------------------------------------------------------------
(* The indexes (proto.RealmMeta).  A loop state s carries the global index *)
(* g, the local index l and the exception err raised so far.               *)

SeqToSet(seq) == {seq[i] : i \in 1..Len(seq)}

\* the element of a singleton.  Only({e(x) : x \in {v}}) is e(v) with v
\* evaluated once: a statement that uses the result of the one before it.
Only(S) == CHOOSE r \in S : TRUE

Has(g, name) == \E i \in 1..Len(g) : g[i].name = name

Pos(g, name) == CHOOSE i \in 1..Len(g) : g[i].name = name

\* RealmMeta.get of a registered name
Get(g, name) == g[Pos(g, name)]

\* an attribute assignment on a registered object
Put(g, d) == [g EXCEPT ![Pos(g, d.name)] = d]

\* RealmMeta.add: a qualified name is registered once
IndexAdd(s, d) ==
    IF Has(s.g, d.name)
    THEN [s EXCEPT !.err = CaosMetaError("duplicate", {d.name})]
    ELSE [s EXCEPT !.g = Append(@, d)]

\* a registration that is skipped when the name is already registered
AddBothIfAbsent(s, d) ==
    IF Has(s.g, d.name) THEN s
    ELSE [s EXCEPT !.g = Append(@, d), !.l = Append(@, d.name)]

\* globalmeta.add(obj); localmeta.add(obj)
AddBoth(s, d) == Only({IF t.err # NoErr THEN t
                       ELSE [t EXCEPT !.l = Append(@, d.name)]
                       : t \in {IndexAdd(s, d)}})

\* The local namespace tries a reference as given, then in the current module,
\* then in the builtin module.

\* a candidate that names a registered declaration of one of the kinds
Resolves(s, name, kinds) ==
    \E i \in 1..Len(s.g) : /\ s.g[i].name = name
                           /\ s.g[i].kind \in kinds
                           /\ name \in SeqToSet(s.l)

\* namespace.normalize_name(ref, default=None): "" when nothing resolves
NormalizeName(s, module, ref, kinds) ==
    IF Resolves(s, ref, kinds) THEN ref
    ELSE IF Resolves(s, QName(module, ref), kinds) THEN QName(module, ref)
    ELSE IF Resolves(s, QName(BuiltinModule, ref), kinds) THEN QName(BuiltinModule, ref)
    ELSE ""

\* localmeta(kind, include_builtin=...): the names of a kind, in insertion order
LocalOfKind(s, kind, include_builtin) ==
    LET keep(d) == /\ d.kind = kind
                   /\ d.name \in SeqToSet(s.l)
                   /\ (include_builtin \/ d.module # BuiltinModule)
        sel == SelectSeq(s.g, keep)
    IN  [i \in 1..Len(sel) |-> sel[i].name]

\* an enumeration of a kind that holds only what the local index registered
GlobalOfKindLocal(g, kind) ==
    LET keep(d) == d.kind = kind /\ d.name \in SeqToSet(localindex)
        sel == SelectSeq(g, keep)
    IN  [i \in 1..Len(sel) |-> sel[i].name]

\* globalmeta(kind, include_automatic=True, include_builtin=True)
GlobalOfKind(g, kind) ==
    LET keep(d) == d.kind = kind
        sel == SelectSeq(g, keep)
    IN  [i \in 1..Len(sel) |-> sel[i].name]

\* commit a loop state: an exception ends the load
Commit(s, next) ==
    \E x \in {s} :
        /\ globalindex' = x.g
        /\ localindex' = x.l
        /\ err' = x.err
        /\ pc' = IF x.err = NoErr THEN next ELSE "failed"

Start == [g |-> globalindex, l |-> localindex, err |-> NoErr]

\* raise e
Raise(s, e) == [s EXCEPT !.err = e]

\* the namespaces of localmeta.get_namespace: atoms and concepts are the nodes a
\* link may target (read_concepts resolves link targets in the concept namespace)
NodeKinds == {"atom", "concept"}

\* obj.add_pointer(ptr): own_pointers and pointers, keyed by the normal name
AddPointer(d, ptr) ==
    [d EXCEPT !.pointers = Append(@, [pname |-> ptr.normal, decl |-> ptr.name]),
              !.own = Append(@, [pname |-> ptr.normal, decl |-> ptr.name])]

\* link.generic(): a link with no source
Generic(d) == d.source = ""

KindOf(g, name) == IF Has(g, name) THEN Get(g, name).kind ELSE ""

-----------------------------------------------------------------------------
(* read_atoms                                                              *)

\* Atom.construct and the naming of read_atoms
AtomOf(module, a) ==
    [Decl("atom", QName(module, a.name), module) EXCEPT
        !.base = IF a.extends = "" THEN <<>> ELSE <<a.extends>>,
        !.final = a.final, !.title = a.title, !.rawcons = a.cons]

\* MetaSet._check_base: the exception it raises, NoErr when it returns
CheckBase(g, element, base_name) ==
    IF KindOf(g, base_name) # element.kind
    THEN CaosMetaError("unresolved", {base_name})
    ELSE IF Get(g, base_name).final
         THEN MetaError("final", element.name, {base_name})
         ELSE NoErr

ReadAtomsAdd(s, a) == AddBoth(s, AtomOf(data.module, a))

\* the except clause of read_atoms: a caos.MetaError gets the context of the atom
ReadAtomsError(e, name) ==
    IF e = NoErr THEN NoErr ELSE MetaError(e.what, name, e.names)

ReadAtomsBase(s, name) ==
    Only({IF atom.base = <<>> THEN s
          ELSE Only({IF b = ""
                     THEN Raise(s, MetaError("unresolved", name, {atom.base[1]}))
                     ELSE [s EXCEPT !.g = Put(@, [atom EXCEPT !.base = <<b>>]),
                                    !.err = ReadAtomsError(CheckBase(s.g, atom, b), name)]
                     : b \in {NormalizeName(s, data.module, atom.base[1], NodeKinds)}})
          : atom \in {Get(s.g, name)}})

\* the first loop of read_atoms
RECURSIVE ReadAtomsAddLoop(_, _, _)
ReadAtomsAddLoop(s, seq, i) ==
    IF i > Len(seq) \/ s.err # NoErr THEN s
    ELSE Only({ReadAtomsAddLoop(t, seq, i + 1)
               : t \in {ReadAtomsAdd(s, seq[i])}})

\* the second loop of read_atoms
RECURSIVE ReadAtomsBaseLoop(_, _, _)
ReadAtomsBaseLoop(s, seq, i) ==
    IF i > Len(seq) \/ s.err # NoErr THEN s
    ELSE Only({ReadAtomsBaseLoop(t, seq, i + 1)
               : t \in {ReadAtomsBase(s, seq[i])}})

ReadAtomsBases(s) == ReadAtomsBaseLoop(s, LocalOfKind(s, "atom", data.builtin), 1)

ReadAtoms ==
    /\ pc = "read_atoms"
    /\ Commit(Only({IF t.err # NoErr THEN t
                    ELSE ReadAtomsBases(t)
                    : t \in {ReadAtomsAddLoop(Start, data.atoms, 1)}}),
              "read_link_properties")
    /\ UNCHANGED <<data, finalindex, ordered>>

-----------------------------------------------------------------------------
(* read_link_properties                                                    *)

\* LinkPropertyDef.construct and the naming of read_link_properties
LinkPropertyOf(module, p) ==
    [Decl("link_property", QName(module, p.name), module) EXCEPT
        !.base = p.extends, !.title = p.title]

\* tuple(ns.normalize_name(b) for b in bases): "" where a name does not resolve
NormalizeNames(s, bases, kinds) ==
    [i \in 1..Len(bases) |-> NormalizeName(s, data.module, bases[i], kinds)]

\* the names of bases that did not resolve
Unresolved(bases, normalized) ==
    {bases[i] : i \in {j \in 1..Len(bases) : normalized[j] = ""}}

\* obj.base = tuple(ns.normalize_name(b) for b in obj.base), or the root of the kind
NormalizeBases(s, name, kinds, root) ==
    Only({IF d.base # <<>>
          THEN Only({IF Unresolved(d.base, nb) # {}
                     THEN Raise(s, CaosMetaError("unresolved", Unresolved(d.base, nb)))
                     ELSE [s EXCEPT !.g = Put(@, [d EXCEPT !.base = nb])]
                     : nb \in {NormalizeNames(s, d.base, kinds)}})
          ELSE IF name # root
               THEN [s EXCEPT !.g = Put(@, [d EXCEPT !.base = <<root>>])]
               ELSE s
          : d \in {Get(s.g, name)}})

ReadLinkPropertiesAdd(s, p) == AddBoth(s, LinkPropertyOf(data.module, p))

ReadLinkPropertiesBase(s, name) ==
    NormalizeBases(s, name, {"link_property"}, QName(BuiltinModule, "link_property"))

\* the first loop of read_link_properties
RECURSIVE ReadLinkPropertiesAddLoop(_, _, _)
ReadLinkPropertiesAddLoop(s, seq, i) ==
    IF i > Len(seq) \/ s.err # NoErr THEN s
    ELSE Only({ReadLinkPropertiesAddLoop(t, seq, i + 1)
               : t \in {ReadLinkPropertiesAdd(s, seq[i])}})

\* the second loop of read_link_properties
RECURSIVE ReadLinkPropertiesBaseLoop(_, _, _)
ReadLinkPropertiesBaseLoop(s, seq, i) ==
    IF i > Len(seq) \/ s.err # NoErr THEN s
    ELSE Only({ReadLinkPropertiesBaseLoop(t, seq, i + 1)
               : t \in {ReadLinkPropertiesBase(s, seq[i])}})

ReadLinkPropertiesBases(s) ==
    ReadLinkPropertiesBaseLoop(s, LocalOfKind(s, "link_property", data.builtin), 1)

ReadLinkProperties ==
    /\ pc = "read_link_properties"
    /\ Commit(Only({IF t.err # NoErr THEN t
                    ELSE ReadLinkPropertiesBases(t)
                    : t \in {ReadLinkPropertiesAddLoop(Start, data.linkprops, 1)}}),
              "read_links")
    /\ UNCHANGED <<data, finalindex, ordered>>

-----------------------------------------------------------------------------
(* read_properties_for_link, _create_base_link, _read_computables          *)

\* a loop state that also carries the object under construction
With(s, cur) == [g |-> s.g, l |-> s.l, err |-> s.err, cur |-> cur]
Strip(s) == [g |-> s.g, l |-> s.l, err |-> s.err]

HasPointer(d, pname) == \E i \in 1..Len(d.pointers) : d.pointers[i].pname = pname

HasOwnPointer(d, pname) == \E i \in 1..Len(d.own) : d.own[i].pname = pname

\* the module of a pointer name resolved by ns.normalize_name(name, default=None),
\* or made of the raw name when nothing resolved
PointerModule(s, resolved, raw) ==
    IF resolved # "" THEN Get(s.g, resolved).module
    ELSE IF IsQualified(raw) THEN ModuleOf(raw) ELSE data.module

PointerQName(resolved, raw) ==
    IF resolved # "" THEN resolved
    ELSE IF IsQualified(raw) THEN raw ELSE QName(data.module, raw)

\* LinkProperty.construct and the specialization of read_properties_for_link
PropertyOf(link, p, target, qname, qmod) ==
    [Decl("link_property", QName(qmod, GenerateName(link.name, target, qname)), qmod)
        EXCEPT !.normal = qname, !.base = <<qname>>, !.target = target,
               !.source = link.name, !.title = p.title, !.default = p.default,
               !.rawpcons = p.pcons, !.rawacons = p.acons]

\* the inline definition of a link property a generic link names first
InlineProperty(name) ==
    [Decl("link_property", QName(data.module, name), data.module)
        EXCEPT !.base = <<QName(BuiltinModule, "link_property")>>]

\* a value of a YAML mapping: a string, or a scalar that is not a string
Str(text) == [str |-> TRUE, text |-> text]
NotStr(text) == [str |-> FALSE, text |-> text]

\* PointerConstraintUnique.construct: the values are the set of the one value
\* the unique key holds
PointerConstraintUnique(value) == <<"unique", {value}>>

\* list(constraint.values)[0]
FirstValue(constraint) == Only(constraint[2])

\* add_pointer_constraints that refuses no unique constraint
InvalidUniqueNever(constraint, type) == FALSE

\* the tests add_pointer_constraints makes on a unique constraint
InvalidUnique(constraint, type) ==
    /\ constraint[1] = "unique"
    /\ \/ type = "atom" /\ (Cardinality(constraint[2]) > 1 \/ FirstValue(constraint).str)
       \/ type = "concept" /\ ~FirstValue(constraint).str

\* parent.add_abstract_constraint(constraint) or parent.add_constraint(constraint)
AttachConstraint(parent, constraint, constraint_type) ==
    IF constraint_type = "abstract"
    THEN [parent EXCEPT !.abstract_constraints = @ \cup {constraint}]
    ELSE [parent EXCEPT !.constraints = @ \cup {constraint}]

\* add_pointer_constraints(parent, constraints, type, constraint_type), from
\* constraint i on: the parent, and the error raised if any
RECURSIVE AddPointerConstraints(_, _, _, _, _)
AddPointerConstraints(parent, constraints, type, constraint_type, i) ==
    IF i > Len(constraints) THEN [parent |-> parent, err |-> NoErr]
    ELSE IF InvalidUnique(constraints[i], type)
    THEN [parent |-> parent,
          err |-> CaosMetaError("invalid_unique_" \o type, {parent.normal})]
    ELSE AddPointerConstraints(AttachConstraint(parent, constraints[i], constraint_type),
                               constraints, type, constraint_type, i + 1)

\* the two add_pointer_constraints calls on a pointer: its _constraints, when
\* regular, then its _abstract_constraints
PointerConstraints(parent, type, regular) ==
    Only({IF r.err # NoErr THEN r
          ELSE AddPointerConstraints(r.parent, parent.rawacons, type, "abstract", 1)
          : r \in {IF regular
                   THEN AddPointerConstraints(parent, parent.rawpcons, type, "regular", 1)
                   ELSE [parent |-> parent, err |-> NoErr]}})

\* add_pointer_constraints(property, ...); globalmeta.add(property);
\* localmeta.add(property); link.add_pointer(property)
AddProperty(s, property) ==
    Only({IF r.err # NoErr THEN Raise(s, r.err)
          ELSE Only({IF t.err # NoErr THEN t
                     ELSE [t EXCEPT !.cur = AddPointer(@, r.parent)]
                     : t \in {AddBoth(s, r.parent)}})
          : r \in {PointerConstraints(property, "atom", TRUE)}})

\* a read_properties_for_link that does not ask the generic link for the property
SpecializePropertyUnchecked(s, p, qname, qmod) ==
    IF Generic(s.cur)
    THEN Only({IF target = ""
               THEN Raise(s, CaosMetaError("unresolved", {p.target}))
               ELSE AddProperty(s, PropertyOf(s.cur, p, target, qname, qmod))
               : target \in {NormalizeName(s, data.module, p.target, NodeKinds)}})
    ELSE AddProperty(s, PropertyOf(s.cur, p, p.target, qname, qmod))

\* the body of read_properties_for_link once the property name is known
SpecializeProperty(s, p, qname, qmod) ==
    IF Generic(s.cur)
    THEN Only({IF target = ""
               THEN Raise(s, CaosMetaError("unresolved", {p.target}))
               ELSE AddProperty(s, PropertyOf(s.cur, p, target, qname, qmod))
               : target \in {NormalizeName(s, data.module, p.target, NodeKinds)}})
    ELSE IF KindOf(s.g, s.cur.base[1]) # "link"
    THEN Raise(s, CaosMetaError("unresolved", {s.cur.base[1]}))
    ELSE IF ~HasPointer(Get(s.g, s.cur.base[1]), qname)
    THEN Raise(s, CaosMetaError("property_not_defined", {qname}))
    ELSE AddProperty(s, PropertyOf(s.cur, p, p.target, qname, qmod))

\* the body of the loop of read_properties_for_link; s.cur is the link
ReadProperty(s, p) ==
    Only({IF q0 = "" /\ ~Generic(s.cur)
          THEN Raise(s, CaosMetaError("undefined_property", {p.name}))
          ELSE Only({IF t.err # NoErr THEN t
                     ELSE SpecializeProperty(t, p, PointerQName(q0, p.name),
                     PointerModule(s, q0, p.name))
                     : t \in {IF q0 = "" /\ ~IsQualified(p.name)
                             THEN AddBoth(s, InlineProperty(p.name)) ELSE s}})
          : q0 \in {NormalizeName(s, data.module, p.name, {"link_property"})}})

\* the loop of read_properties_for_link
RECURSIVE ReadPropertyLoop(_, _, _)
ReadPropertyLoop(s, seq, i) ==
    IF i > Len(seq) \/ s.err # NoErr THEN s
    ELSE Only({ReadPropertyLoop(t, seq, i + 1)
               : t \in {ReadProperty(s, seq[i])}})

\* read_properties_for_link(link, ...): link is not registered yet
ReadPropertiesForLink(s, link, props) == ReadPropertyLoop(With(s, link), props, 1)

\* read_properties_for_link(link, ...); globalmeta.add(link); localmeta.add(link)
AddLink(s, link, props) ==
    Only({IF t.err # NoErr THEN Strip(t) ELSE AddBoth(Strip(t), t.cur)
          : t \in {ReadPropertiesForLink(s, link, props)}})

\* the root of a pointer kind
RootOf(kind) ==
    IF kind = "link" THEN QName(BuiltinModule, "link")
    ELSE QName(BuiltinModule, "link_property")

\* the generic pointer _create_base_link makes for link
BaseLinkOf(g, link, qname, kind) ==
    [Decl(kind, qname, IF IsQualified(qname) THEN ModuleOf(qname) ELSE data.module)
        EXCEPT !.base = <<RootOf(kind)>>,
               !.is_atom = IF KindOf(g, link.target) = "atom" THEN "true" ELSE "false"]

\* a _create_base_link that registers the generic pointer in the global index only
CreateBaseLinkGlobalOnly(s, link, qname, local, kind) ==
    IF ~Has(s.g, link.target)
    THEN Raise(s, CaosMetaError("unresolved", {link.target}))
    ELSE IndexAdd(s, BaseLinkOf(s.g, link, qname, kind))

\* _create_base_link: the generic pointer of an inline pointer definition
CreateBaseLink(s, link, qname, local, kind) ==
    IF ~Has(s.g, link.target)
    THEN Raise(s, CaosMetaError("unresolved", {link.target}))
    ELSE IF local THEN AddBoth(s, BaseLinkOf(s.g, link, qname, kind))
    ELSE IndexAdd(s, BaseLinkOf(s.g, link, qname, kind))

\* Computable.construct and the naming of _read_computables
ComputableOf(sname, c, qname, qmod) ==
    [Decl("computable", QName(qmod, GenerateName(sname, "", c.name)), qmod)
        EXCEPT !.normal = qname, !.source = sname, !.expr = c.expr]

\* a _read_computables that does not look at the own pointers of the source
AddComputableUnchecked(s, sname, comp) ==
    AddBoth([s EXCEPT !.g = Put(@, AddPointer(Get(s.g, sname), comp))], comp)

\* the body of the loop of _read_computables once the computable is named
AddComputable(s, sname, comp) ==
    IF HasOwnPointer(Get(s.g, sname), comp.normal)
    THEN Raise(s, MetaError("computable_conflict", comp.name, {comp.normal}))
    ELSE AddBoth([s EXCEPT !.g = Put(@, AddPointer(Get(s.g, sname), comp))], comp)

\* the body of the loop of _read_computables
ReadComputable(s, sname, c) ==
    Only({Only({AddComputable(s, sname, comp)
          : comp \in {ComputableOf(sname, c, PointerQName(q0, c.name),
                     PointerModule(s, q0, c.name))}})
          : q0 \in {NormalizeName(s, data.module, c.name, {"computable"})}})

RECURSIVE ReadComputableLoop(_, _, _, _)
ReadComputableLoop(s, sname, seq, i) ==
    IF i > Len(seq) \/ s.err # NoErr THEN s
    ELSE Only({ReadComputableLoop(t, sname, seq, i + 1)
               : t \in {ReadComputable(s, sname, seq[i])}})

\* _read_computables(source, ...): source is registered under sname
ReadComputables(s, sname, comps) == ReadComputableLoop(s, sname, comps, 1)

\* normalize_index_expr and source.add_index for the index at position i of the
\* indexes section of a source
ReadIndex(s, sname, index) ==
    IF index.fails = "normalize" THEN Raise(s, CaosQLReferenceError(index.ctx))
    ELSE [s EXCEPT !.g = Put(@, [Get(s.g, sname) EXCEPT
                                    !.indexes = Append(@, [index EXCEPT !.norm = TRUE])])]

\* for index in source._indexes
RECURSIVE ReadIndexes(_, _, _, _)
ReadIndexes(s, sname, indexes, i) ==
    IF i > Len(indexes) \/ s.err # NoErr THEN s
    ELSE Only({ReadIndexes(t, sname, indexes, i + 1)
               : t \in {ReadIndex(s, sname, indexes[i])}})

\* the raw declaration of a registered name, as construct stashed it on the object
RawOf(section, name) ==
    LET hit == {i \in 1..Len(section) : QName(data.module, section[i].name) = name}
    IN  IF hit = {} THEN [props |-> <<>>, comps |-> <<>>, links |-> <<>>, indexes |-> <<>>]
        ELSE section[CHOOSE i \in hit : TRUE]

-----------------------------------------------------------------------------
(* read_links                                                              *)

\* LinkDef.construct and the naming of read_links
LinkOf(module, ln) ==
    [Decl("link", QName(module, ln.name), module) EXCEPT
        !.base = ln.extends, !.final = ln.final, !.title = ln.title,
        !.mapping = ln.mapping]

ReadLinksAdd(s, ln) == AddLink(s, LinkOf(data.module, ln), ln.props)

ReadLinksBase(s, name) ==
    Only({IF u.err # NoErr THEN u
          ELSE ReadIndexes(u, name, RawOf(data.links, name).indexes, 1)
          : u \in {Only({IF t.err # NoErr THEN t
                   ELSE ReadComputables(t, name, RawOf(data.links, name).comps)
                   : t \in {NormalizeBases(s, name, {"link"},
                                           QName(BuiltinModule, "link"))}})}})

\* the first loop of read_links
RECURSIVE ReadLinksAddLoop(_, _, _)
ReadLinksAddLoop(s, seq, i) ==
    IF i > Len(seq) \/ s.err # NoErr THEN s
    ELSE Only({ReadLinksAddLoop(t, seq, i + 1)
               : t \in {ReadLinksAdd(s, seq[i])}})

\* the second loop of read_links
RECURSIVE ReadLinksBaseLoop(_, _, _)
ReadLinksBaseLoop(s, seq, i) ==
    IF i > Len(seq) \/ s.err # NoErr THEN s
    ELSE Only({ReadLinksBaseLoop(t, seq, i + 1)
               : t \in {ReadLinksBase(s, seq[i])}})

ReadLinksBases(s) == ReadLinksBaseLoop(s, LocalOfKind(s, "link", data.builtin), 1)

ReadLinks ==
    /\ pc = "read_links"
    /\ Commit(Only({IF t.err # NoErr THEN t
                    ELSE ReadLinksBases(t)
                    : t \in {ReadLinksAddLoop(Start, data.links, 1)}}),
              "read_concepts")
    /\ UNCHANGED <<data, finalindex, ordered>>

-----------------------------------------------------------------------------
(* read_concepts                                                           *)

\* Concept.construct and the naming of read_concepts
ConceptOf(module, c) ==
    [Decl("concept", QName(module, c.name), module) EXCEPT
        !.base = c.extends, !.final = c.final, !.title = c.title]

\* the explicit check of read_concepts before it registers a concept
AlreadyDefined(g, name) == Has(g, name)

ReadConceptsAdd(s, c) ==
    IF AlreadyDefined(s.g, QName(data.module, c.name))
    THEN Raise(s, CaosMetaError("already_defined", {QName(data.module, c.name)}))
    ELSE AddBoth(s, ConceptOf(data.module, c))

\* a specialization that does not take required from the declaration of the link
ConceptLinkOfNotRequired(cname, ln, target, qname, qmod) ==
    [Decl("link", QName(qmod, GenerateName(cname, target, qname)), qmod)
        EXCEPT !.normal = qname, !.base = <<qname>>, !.source = cname,
               !.target = target, !.mapping = ln.mapping,
               !.title = ln.title, !.default = ln.default, !.rawcons = ln.cons,
               !.rawpcons = ln.pcons, !.rawacons = ln.acons]

\* a specialization named from the target as written, before it is resolved
ConceptLinkOfRawTarget(cname, ln, target, qname, qmod) ==
    [Decl("link", QName(qmod, GenerateName(cname, ln.target, qname)), qmod)
        EXCEPT !.normal = qname, !.base = <<qname>>, !.source = cname,
               !.target = target, !.mapping = ln.mapping, !.required = ln.required,
               !.title = ln.title, !.default = ln.default, !.rawcons = ln.cons,
               !.rawpcons = ln.pcons, !.rawacons = ln.acons]

\* LinkList.construct and the specialization of read_concepts
ConceptLinkOf(cname, ln, target, qname, qmod) ==
    [Decl("link", QName(qmod, GenerateName(cname, target, qname)), qmod)
        EXCEPT !.normal = qname, !.base = <<qname>>, !.source = cname,
               !.target = target, !.mapping = ln.mapping, !.required = ln.required,
               !.title = ln.title, !.default = ln.default, !.rawcons = ln.cons,
               !.rawpcons = ln.pcons, !.rawacons = ln.acons]

\* read_properties_for_link(link); the two adds; concept.add_pointer(link)
AddConceptLink(s, cname, link, props) ==
    Only({IF t.err # NoErr THEN t
          ELSE [t EXCEPT !.g = Put(@, AddPointer(Get(t.g, cname), Get(t.g, link.name)))]
          : t \in {AddLink(s, link, props)}})

\* the body of the loop over the links of a concept once the target is resolved
SpecializeLink(s, cname, ln, target, q0) ==
    Only({Only({IF t.err # NoErr THEN t
          ELSE AddConceptLink(t, cname, link, ln.props)
          : t \in {IF q0 = "" /\ ~IsQualified(ln.name)
                  THEN CreateBaseLink(s, link, link.normal, TRUE, "link") ELSE s}})
          : link \in {ConceptLinkOf(cname, ln, target, PointerQName(q0, ln.name),
                     PointerModule(s, q0, ln.name))}})

\* the body of the loop over concept._links; cname is the concept
ReadConceptLink(s, cname, ln) ==
    Only({IF target = ""
          THEN Raise(s, CaosMetaError("unresolved", {ln.target}))
          ELSE SpecializeLink(s, cname, ln, target,
                              NormalizeName(s, data.module, ln.name, {"link"}))
          : target \in {NormalizeName(s, data.module, ln.target, NodeKinds)}})

\* a read_concepts that gives every concept with no base the implicit root
ConceptBasesRootToo(name, bases) ==
    IF bases = <<>> THEN <<QName(BuiltinModule, "Object")>> ELSE bases

\* the implicit root of a concept with no prototype base
ConceptBases(name, bases) ==
    IF bases = <<>> /\ name # QName(BuiltinModule, "BaseObject")
    THEN <<QName(BuiltinModule, "Object")>>
    ELSE bases

\* concept.base = tuple(bases)
ReadConceptBases(s, cname) ==
    Only({Only({IF Unresolved(concept.base, nb) # {}
          THEN Raise(s, CaosMetaError("unresolved", Unresolved(concept.base, nb)))
          ELSE [s EXCEPT !.g = Put(@, [concept EXCEPT !.base = ConceptBases(cname, nb)])]
          : nb \in {NormalizeNames(s, concept.base, NodeKinds)}})
          : concept \in {Get(s.g, cname)}})

\* the loop over concept._links
RECURSIVE ReadConceptLinkLoop(_, _, _, _)
ReadConceptLinkLoop(s, cname, seq, i) ==
    IF i > Len(seq) \/ s.err # NoErr THEN s
    ELSE Only({ReadConceptLinkLoop(t, cname, seq, i + 1)
               : t \in {ReadConceptLink(s, cname, seq[i])}})

\* the body of the second loop of read_concepts
ReadConceptsLinks(s, cname) ==
    Only({IF t.err # NoErr THEN t
          ELSE ReadConceptLinkLoop(t, cname, RawOf(data.concepts, cname).links, 1)
          : t \in {ReadConceptBases(s, cname)}})

ReadConceptsComputables(s, cname) ==
    Only({IF t.err # NoErr THEN t
          ELSE ReadIndexes(t, cname, RawOf(data.concepts, cname).indexes, 1)
          : t \in {ReadComputables(s, cname, RawOf(data.concepts, cname).comps)}})

\* the first loop of read_concepts
RECURSIVE ReadConceptsAddLoop(_, _, _)
ReadConceptsAddLoop(s, seq, i) ==
    IF i > Len(seq) \/ s.err # NoErr THEN s
    ELSE Only({ReadConceptsAddLoop(t, seq, i + 1)
               : t \in {ReadConceptsAdd(s, seq[i])}})

\* the second loop of read_concepts
RECURSIVE ReadConceptsLinksLoop(_, _, _)
ReadConceptsLinksLoop(s, seq, i) ==
    IF i > Len(seq) \/ s.err # NoErr THEN s
    ELSE Only({ReadConceptsLinksLoop(t, seq, i + 1)
               : t \in {ReadConceptsLinks(s, seq[i])}})

\* the third loop of read_concepts
RECURSIVE ReadConceptsComputablesLoop(_, _, _)
ReadConceptsComputablesLoop(s, seq, i) ==
    IF i > Len(seq) \/ s.err # NoErr THEN s
    ELSE Only({ReadConceptsComputablesLoop(t, seq, i + 1)
               : t \in {ReadConceptsComputables(s, seq[i])}})

ReadConceptsSecond(s) ==
    ReadConceptsLinksLoop(s, LocalOfKind(s, "concept", data.builtin), 1)

ReadConceptsThird(s) ==
    ReadConceptsComputablesLoop(s, LocalOfKind(s, "concept", data.builtin), 1)

\* a construct that runs the final pass for every load
AfterReadAlwaysOrder == "order_concepts"

\* if self.toplevel: the step of construct that follows the four read_* calls
AfterRead == IF data.toplevel THEN "order_concepts" ELSE "done"

ReadConcepts ==
    /\ pc = "read_concepts"
    /\ Commit(Only({IF t.err # NoErr THEN t
                    ELSE ReadConceptsThird(t)
                    : t \in {Only({IF t.err # NoErr THEN t
                            ELSE ReadConceptsSecond(t)
                            : t \in {ReadConceptsAddLoop(Start, data.concepts, 1)}})}}),
              AfterRead)
    /\ UNCHANGED <<data, finalindex, ordered>>

-----------------------------------------------------------------------------
(* topological.normalize(g, merger): the dependency order of a kind and    *)
(* the merge of every declaration over its bases.                          *)

\* the nodes of g that a node names in its "merge" list
MergeEdges(graph, n) == SeqToSet(graph[n]) \cap DOMAIN graph

RECURSIVE Closure(_, _)
Closure(graph, S) ==
    Only({IF T = S THEN S ELSE Closure(graph, T)
          : T \in {S \cup UNION {MergeEdges(graph, n) : n \in S}}})

Ancestors(graph, n) == Closure(graph, MergeEdges(graph, n))

\* the nodes that lie on an inheritance cycle
OnCycle(graph) == {n \in DOMAIN graph : n \in Ancestors(graph, n)}

\* the first node of todo whose bases are all done
FirstReady(graph, todo, done) ==
    CHOOSE i \in 1..Len(todo) :
        /\ MergeEdges(graph, todo[i]) \subseteq SeqToSet(done)
        /\ \A j \in 1..(i - 1) : ~(MergeEdges(graph, todo[j]) \subseteq SeqToSet(done))

\* bases before dependents, otherwise in the order of the index
RECURSIVE TopoSort(_, _, _)
TopoSort(graph, todo, done) ==
    IF todo = <<>> THEN done
    ELSE Only({TopoSort(graph, SubSeq(todo, 1, k - 1) \o SubSeq(todo, k + 1, Len(todo)),
               Append(done, todo[k]))
               : k \in {FirstReady(graph, todo, done)}})

\* an attribute the child left unset comes from the left-most base that sets it
MergeAttr(own, bases, unset) ==
    IF own # unset \/ \A i \in 1..Len(bases) : bases[i] = unset THEN own
    ELSE bases[CHOOSE i \in 1..Len(bases) :
                   bases[i] # unset /\ \A j \in 1..(i - 1) : bases[j] = unset]

\* constraint sets union; a constraint kind already present wins
RECURSIVE MergeConstraints(_, _)
MergeConstraints(own, bases) ==
    IF bases = <<>> THEN own
    ELSE Only({MergeConstraints(acc, Tail(bases))
               : acc \in {own \cup {c \in Head(bases) : \A a \in own : a[1] # c[1]}}})

\* the pointers of b under names that acc does not hold
NewPointers(acc, b) ==
    LET new(p) == \A i \in 1..Len(acc) : acc[i].pname # p.pname
    IN  SelectSeq(b, new)

\* pointer maps union by name; a name already present wins
RECURSIVE MergePointers(_, _)
MergePointers(own, bases) ==
    IF bases = <<>> THEN own
    ELSE Only({MergePointers(acc, Tail(bases))
               : acc \in {own \o NewPointers(own, Head(bases))}})

\* proto.Atom.merge, proto.LinkProperty.merge, proto.Link.merge, proto.Concept.merge
\* of a declaration over its merged bases, in the order of its "merge" list
MergeDecl(d, bases) ==
    [d EXCEPT
        !.title = MergeAttr(@, [i \in 1..Len(bases) |-> bases[i].title], ""),
        !.mapping = MergeAttr(@, [i \in 1..Len(bases) |-> bases[i].mapping], ""),
        !.required = MergeAttr(@, [i \in 1..Len(bases) |-> bases[i].required], ""),
        !.constraints = MergeConstraints(@, [i \in 1..Len(bases) |-> bases[i].constraints]),
        !.pointers = MergePointers(@, [i \in 1..Len(bases) |-> bases[i].pointers])]

\* the bases of n that are nodes, in the order of the "merge" list
MergeList(graph, n) ==
    LET in(b) == b \in DOMAIN graph
    IN  SelectSeq(graph[n], in)

\* the merger applied to node n, its bases merged before it
MergeNode(g, graph, n) ==
    Only({Put(g, MergeDecl(Get(g, n), [i \in 1..Len(ml) |-> Get(g, ml[i])]))
          : ml \in {MergeList(graph, n)}})

\* the merge of every node, in dependency order
RECURSIVE MergeAll(_, _, _)
MergeAll(g, graph, ord) ==
    IF ord = <<>> THEN g
    ELSE Only({MergeAll(h, graph, Tail(ord))
               : h \in {MergeNode(g, graph, Head(ord))}})

\* topological.normalize: the state after the merge, ord the order; a cycle raises
Normalize(s, graph, names) ==
    Only({IF cyc # {}
          THEN [g |-> s.g, l |-> s.l, ord |-> <<>>, err |-> CaosMetaError("cycle", cyc)]
          ELSE Only({[g |-> MergeAll(s.g, graph, ord), l |-> s.l, ord |-> ord, err |-> NoErr]
                     : ord \in {TopoSort(graph, names, <<>>)}})
          : cyc \in {OnCycle(graph)}})

-----------------------------------------------------------------------------
(* The expression service (caosql_expr) and the two resolvers that use it. *)
(* An expression carries what the service infers for it: cols, the result  *)
(* types in column order ("" for a type it could not determine), and refs, *)
(* the declarations it references ("self" is the anchor).                  *)

\* the inheritance graph of the whole index
BaseGraph(g) == [n \in {g[i].name : i \in 1..Len(g)} |-> Get(g, n).base]

\* first.issubclass(globalmeta, target): target is first or one of its ancestors
IsSubclass(g, first, target) ==
    first = target \/ (Has(g, first) /\ target \in Ancestors(BaseGraph(g), first))

\* the mappings a concept link with a query default may have
QueryDefaultMappings == {"*1", "**"}

\* the checks of normalize_pointer_defaults on one query default of a link:
\* the exception raised, NoErr when the default is accepted
CheckQueryDefault(g, link, d) ==
    IF d.raises THEN CaosQLReferenceError(link.name)
    ELSE IF Len(d.cols) > 1
    THEN MetaError("default_type", link.name, {link.target})
    ELSE IF d.cols[1] = ""
    THEN PyError("AttributeError", "issubclass")
    ELSE IF ~IsSubclass(g, d.cols[1], link.target)
    THEN MetaError("default_type", link.name, {link.target})
    ELSE IF KindOf(g, link.target) # "atom" /\ link.mapping \notin QueryDefaultMappings
    THEN MetaError("default_mapping", link.name, {link.target})
    ELSE NoErr

\* the body of the loop over link.default, for the default at position i
NormalizeDefault(s, lname, i) ==
    Only({IF ~link.default[i].query THEN s
          ELSE Only({IF e # NoErr THEN Raise(s, e)
                     ELSE [s EXCEPT !.g = Put(@, [link EXCEPT !.default[i].norm = TRUE])]
                     : e \in {CheckQueryDefault(s.g, link, link.default[i])}})
          : link \in {Get(s.g, lname)}})

\* the loop over link.default
RECURSIVE NormalizeDefaultLoop(_, _, _)
NormalizeDefaultLoop(s, lname, i) ==
    IF i > Len(Get(s.g, lname).default) \/ s.err # NoErr THEN s
    ELSE Only({NormalizeDefaultLoop(t, lname, i + 1)
               : t \in {NormalizeDefault(s, lname, i)}})

\* the body of the loop over source.pointers
NormalizeLinkDefaults(s, p) ==
    IF KindOf(s.g, p.decl) = "computable" THEN s
    ELSE NormalizeDefaultLoop(s, p.decl, 1)

RECURSIVE NormalizeLinkDefaultsLoop(_, _, _)
NormalizeLinkDefaultsLoop(s, seq, i) ==
    IF i > Len(seq) \/ s.err # NoErr THEN s
    ELSE Only({NormalizeLinkDefaultsLoop(t, seq, i + 1)
               : t \in {NormalizeLinkDefaults(s, seq[i])}})

\* normalize_pointer_defaults(source, globalmeta)
NormalizePointerDefaults(s, sname) ==
    NormalizeLinkDefaultsLoop(s, Get(s.g, sname).pointers, 1)

\* normalize_computables that makes the scalar check whatever the source is
CheckComputableAnySource(g, source, link) ==
    IF link.expr.raises THEN CaosQLReferenceError(link.name)
    ELSE IF link.expr.cols[1] = ""
    THEN PyError("AssertionError", "computable_type")
    ELSE IF Len(link.expr.cols) > 1
    THEN MetaError("computable_columns", link.name, {})
    ELSE IF KindOf(g, link.expr.cols[1]) # "atom"
    THEN MetaError("computable_nonscalar", link.name, {})
    ELSE NoErr

\* the checks of normalize_computables on the inferred columns of a computable:
\* the exception raised, NoErr when the expression is accepted
CheckComputable(g, source, link) ==
    IF link.expr.raises THEN CaosQLReferenceError(link.name)
    ELSE IF link.expr.cols[1] = ""
    THEN PyError("AssertionError", "computable_type")
    ELSE IF Len(link.expr.cols) > 1
    THEN MetaError("computable_columns", link.name, {})
    ELSE IF source.kind = "link" /\ KindOf(g, link.expr.cols[1]) # "atom"
    THEN MetaError("computable_nonscalar", link.name, {})
    ELSE NoErr

\* get_node_references(tree) with the anchor self bound to the source
NodeReferences(expr, sname) == {IF r = "self" THEN sname ELSE r : r \in expr.refs}

\* link.is_local of normalize_computables
IsLocal(refs, sname) == Cardinality(refs) = 1 /\ refs = {sname}

Flag(b) == IF b THEN "true" ELSE "false"

\* the four assignments of normalize_computables after its checks
ResolveComputable(g, link, sname) ==
    [link EXCEPT !.target = link.expr.cols[1],
                 !.expr.norm = TRUE,
                 !.is_local = Flag(IsLocal(NodeReferences(link.expr, sname), sname)),
                 !.is_atom = Flag(KindOf(g, link.expr.cols[1]) = "atom")]

\* the kind of the generic pointer a computable of a source specializes
ParentKind(source) == IF source.kind = "concept" THEN "link" ELSE "link_property"

\* link.base = (parent_link.name,), the parent created when it is missing
SetComputableBase(s, link, kind) ==
    Only({IF t.err # NoErr THEN t
          ELSE [t EXCEPT !.g = Put(@, [link EXCEPT !.base = <<link.normal>>])]
          : t \in {IF KindOf(s.g, link.normal) = kind THEN [s EXCEPT !.g = Put(@, link)]
                  ELSE CreateBaseLink([s EXCEPT !.g = Put(@, link)], link, link.normal, FALSE, kind)}})

\* the body of the loop over source.pointers
NormalizeComputable(s, sname, p) ==
    IF KindOf(s.g, p.decl) # "computable" THEN s
    ELSE Only({Only({IF e # NoErr THEN Raise(s, e)
               ELSE Only({SetComputableBase(s, resolved, ParentKind(Get(s.g, sname)))
                          : resolved \in {ResolveComputable(s.g, link, sname)}})
               : e \in {CheckComputable(s.g, Get(s.g, sname), link)}})
               : link \in {Get(s.g, p.decl)}})

RECURSIVE NormalizeComputableLoop(_, _, _, _)
NormalizeComputableLoop(s, sname, seq, i) ==
    IF i > Len(seq) \/ s.err # NoErr THEN s
    ELSE Only({NormalizeComputableLoop(t, sname, seq, i + 1)
               : t \in {NormalizeComputable(s, sname, seq[i])}})

\* normalize_computables(source, globalmeta)
NormalizeComputables(s, sname) ==
    NormalizeComputableLoop(s, sname, Get(s.g, sname).pointers, 1)

-----------------------------------------------------------------------------
(* order_concepts                                                          *)

\* Atom.gen_atom_name(host, link_name)
GenAtomName(host, link_name) == "atom|" \o host.name \o "|" \o link_name

\* genatom: the automatic atom of an inline atom definition
GenAtom(host, base, link_name, constraints) ==
    [Decl("atom", QName(host.module, GenAtomName(host, link_name)), host.module)
        EXCEPT !.base = <<base>>, !.automatic = TRUE, !.constraints = constraints]

\* the mapping a link to an atom may declare
AtomLinkMappings == {"", "11"}

\* the branch of order_concepts for a link to an atom; atom is the inline atom
OrderAtomLink(s, p, link, atom) ==
    IF <<p.pname, "concept">> \in s.cur
    THEN Raise(s, CaosMetaError("target_conflict", {p.pname}))
    ELSE Only({IF t.err # NoErr THEN t
               ELSE [t EXCEPT
               !.g = Put(@, [link EXCEPT
                                !.is_atom = "true",
                                !.target = IF link.rawcons # {} THEN atom.name ELSE @]),
               !.cur = @ \cup {<<p.pname, "atom">>},
               !.err = IF link.mapping \notin AtomLinkMappings
                       THEN CaosMetaError("atom_mapping", {p.pname}) ELSE NoErr]
               : t \in {IF link.rawcons # {} THEN IndexAdd(s, atom) ELSE s}})

\* an order_concepts that takes a link to a concept under any name
OrderConceptLinkUnchecked(s, p) == [s EXCEPT !.cur = @ \cup {<<p.pname, "concept">>}]

\* the branch of order_concepts for a link to a concept
OrderConceptLink(s, p) ==
    IF <<p.pname, "atom">> \in s.cur
    THEN Raise(s, CaosMetaError("target_conflict", {p.pname}))
    ELSE [s EXCEPT !.cur = @ \cup {<<p.pname, "concept">>}]

\* the body of the loop over concept.pointers; s.cur is link_target_types
OrderConceptPointer(s, cname, p) ==
    Only({IF link.kind = "computable" THEN s
          ELSE IF ~Has(s.g, link.target)
          THEN Raise(s, CaosMetaError("unresolved", {link.target}))
          ELSE IF KindOf(s.g, link.target) = "atom"
          THEN OrderAtomLink(s, p, link,
                             GenAtom(Get(s.g, cname), link.target, p.pname, link.rawcons))
          ELSE OrderConceptLink(s, p)
          : link \in {Get(s.g, p.decl)}})

\* order_concepts that builds g[concept.name]["merge"] from the last base to the first
ConceptMergeListReversed(concept) ==
    [i \in 1..Len(concept.base) |-> concept.base[Len(concept.base) + 1 - i]]

\* g[concept.name]["merge"] of order_concepts
ConceptMergeList(concept) == concept.base

\* one _check_base call of an order_* method
CheckOneBase(s, name, b) == Raise(s, CheckBase(s.g, Get(s.g, name), b))

RECURSIVE CheckOneBaseLoop(_, _, _, _)
CheckOneBaseLoop(s, name, seq, i) ==
    IF i > Len(seq) \/ s.err # NoErr THEN s
    ELSE Only({CheckOneBaseLoop(t, name, seq, i + 1)
               : t \in {CheckOneBase(s, name, seq[i])}})

\* the _check_base calls on the bases of an element, in order
CheckBases(s, name) == CheckOneBaseLoop(s, name, Get(s.g, name).base, 1)

\* the loop over concept.pointers
RECURSIVE OrderConceptPointerLoop(_, _, _, _)
OrderConceptPointerLoop(s, cname, seq, i) ==
    IF i > Len(seq) \/ s.err # NoErr THEN s
    ELSE Only({OrderConceptPointerLoop(t, cname, seq, i + 1)
               : t \in {OrderConceptPointer(s, cname, seq[i])}})

\* the body of the first loop of order_concepts
OrderConceptsFirst(s, cname) ==
    Only({IF t.err # NoErr THEN t
          ELSE CheckBases(Strip(t), cname)
          : t \in {OrderConceptPointerLoop(With(s, {}), cname, Get(s.g, cname).pointers, 1)}})

\* for index in source.indexes: csql_expr.check_source_atomic_expr(index.tree, source)
RECURSIVE CheckSourceIndexes(_, _, _)
CheckSourceIndexes(s, indexes, i) ==
    IF i > Len(indexes) THEN s
    ELSE IF indexes[i].fails = "check" THEN Raise(s, CaosQLReferenceError(indexes[i].ctx))
    ELSE CheckSourceIndexes(s, indexes, i + 1)

\* the context of the last index of the sources seq[1..i] that have indexes: the
\* variable index after the loops over their indexes have run, "" when unbound
RECURSIVE LastIndex(_, _, _)
LastIndex(g, seq, i) ==
    IF i = 0 THEN ""
    ELSE Only({IF indexes # <<>> THEN indexes[Len(indexes)].ctx
               ELSE LastIndex(g, seq, i - 1)
               : indexes \in {Get(g, seq[i]).indexes}})

\* the variable index when the body of the try block raises for source seq[i]
BoundIndex(g, seq, i) ==
    Only({IF \E j \in 1..Len(indexes) : indexes[j].fails = "check"
          THEN indexes[CHOOSE j \in 1..Len(indexes) :
                          /\ indexes[j].fails = "check"
                          /\ \A k \in 1..(j - 1) : indexes[k].fails # "check"].ctx
          ELSE LastIndex(g, seq, i)
          : indexes \in {Get(g, seq[i]).indexes}})

\* except caosql_exc.CaosQLReferenceError as e:
\*     raise MetaError(e.args[0], context=index.context) from e
Reraise(s, index) ==
    IF s.err.cls # "CaosQLReferenceError" THEN s
    ELSE IF index = "" THEN Raise(s, PyError("UnboundLocalError", "index"))
    ELSE Raise(s, MetaError(s.err.what, index, s.err.names))

\* the second loop of order_concepts, for one concept
OrderConceptsSecond(s, cname) ==
    Only({IF u.err # NoErr THEN u
          ELSE Only({IF t.err # NoErr THEN t
                     ELSE NormalizeComputables(t, cname)
                     : t \in {NormalizePointerDefaults(u, cname)}})
          : u \in {CheckSourceIndexes(s, Get(s.g, cname).indexes, 1)}})

\* the result of an order_* method: ord is the list it returns
WithOrder(s, ord) == [g |-> s.g, l |-> s.l, err |-> s.err, ord |-> ord]

\* the first loop of order_concepts
RECURSIVE OrderConceptsFirstLoop(_, _, _)
OrderConceptsFirstLoop(s, seq, i) ==
    IF i > Len(seq) \/ s.err # NoErr THEN s
    ELSE Only({OrderConceptsFirstLoop(t, seq, i + 1)
               : t \in {OrderConceptsFirst(s, seq[i])}})

\* the second loop of order_concepts
RECURSIVE OrderConceptsSecondLoop(_, _, _)
OrderConceptsSecondLoop(s, seq, i) ==
    IF i > Len(seq) \/ s.err # NoErr THEN s
    ELSE Only({OrderConceptsSecondLoop(t, seq, i + 1)
               : t \in {Reraise(OrderConceptsSecond(s, seq[i]), BoundIndex(s.g, seq, i))}})

\* the graph order_concepts hands to topological.normalize
ConceptGraph(g, names) == [n \in SeqToSet(names) |-> ConceptMergeList(Get(g, n))]

\* order_concepts(globalmeta)
OrderConceptsOf(s0, names) ==
    Only({IF s1.err # NoErr THEN s1
          ELSE Only({IF s2.err # NoErr THEN s2
          ELSE WithOrder(OrderConceptsSecondLoop(Strip(s2), s2.ord, 1), s2.ord)
          : s2 \in {Normalize(s1, ConceptGraph(s1.g, names), names)}})
          : s1 \in {OrderConceptsFirstLoop(s0, names, 1)}})

Order(kind, next, s) ==
    \E x \in {s} :
        /\ Commit(x, next)
        /\ ordered' = [ordered EXCEPT ![kind] = IF x.err = NoErr THEN x.ord ELSE @]
        /\ UNCHANGED <<data, finalindex>>

OrderConcepts ==
    /\ pc = "order_concepts"
    /\ Order("concept", "order_links",
             OrderConceptsOf(Start, GlobalOfKind(globalindex, "concept")))

-----------------------------------------------------------------------------
(* order_links                                                             *)

\* link.atomic(): the target is an atom
Atomic(g, link) == KindOf(g, link.target) = "atom"

\* g[link.name]["merge"] of order_links
LinkMergeList(link) == link.base

\* the names order_links looks up for a link that the index does not hold
Missing(g, link) ==
    {x \in {Get(g, link.pointers[i].decl).target : i \in 1..Len(link.pointers)}
           \cup {link.source, link.target} : x # "" /\ ~Has(g, x)}

\* the atom/concept conflict of a specialized link with its generic link
TargetConflict(g, link) ==
    IF Generic(link) \/ Atomic(g, link) THEN NoErr
    ELSE IF ~Has(g, link.normal) THEN CaosMetaError("unresolved", {link.normal})
    ELSE IF Get(g, link.normal).is_atom = "true"
    THEN CaosMetaError("target_conflict", {link.normal})
    ELSE NoErr

\* the add_pointer_constraints calls of order_links on link
ConstrainLink(s, link) ==
    IF s.err # NoErr THEN s
    ELSE Only({IF r.err # NoErr THEN Raise(s, r.err)
               ELSE [s EXCEPT !.g = Put(@, r.parent)]
               : r \in {PointerConstraints(link,
                                           IF Atomic(s.g, link) THEN "atom" ELSE "concept",
                                           ~Generic(link))}})

\* the first loop of order_links, for one link
OrderLinksFirst(s, lname) ==
    Only({Only({IF missing # {}
          THEN Raise(s, CaosMetaError("unresolved", missing))
          ELSE Only({IF t.err # NoErr THEN t
                     ELSE CheckBases(t, lname)
                     : t \in {ConstrainLink(Raise(s, TargetConflict(s.g, link)), link)}})
          : missing \in {Missing(s.g, link)}})
          : link \in {Get(s.g, lname)}})

\* the second loop of order_links, for one link
OrderLinksSecond(s, lname) ==
    Only({IF u.err # NoErr THEN u
          ELSE Only({IF t.err # NoErr THEN t
                     ELSE NormalizePointerDefaults(t, lname)
                     : t \in {NormalizeComputables(u, lname)}})
          : u \in {CheckSourceIndexes(s, Get(s.g, lname).indexes, 1)}})

\* the first loop of order_links
RECURSIVE OrderLinksFirstLoop(_, _, _)
OrderLinksFirstLoop(s, seq, i) ==
    IF i > Len(seq) \/ s.err # NoErr THEN s
    ELSE Only({OrderLinksFirstLoop(t, seq, i + 1)
               : t \in {OrderLinksFirst(s, seq[i])}})

\* the second loop of order_links
RECURSIVE OrderLinksSecondLoop(_, _, _)
OrderLinksSecondLoop(s, seq, i) ==
    IF i > Len(seq) \/ s.err # NoErr THEN s
    ELSE Only({OrderLinksSecondLoop(t, seq, i + 1)
               : t \in {Reraise(OrderLinksSecond(s, seq[i]), BoundIndex(s.g, seq, i))}})

\* the graph order_links hands to topological.normalize
LinkGraph(g, names) == [n \in SeqToSet(names) |-> LinkMergeList(Get(g, n))]

\* order_links(globalmeta)
OrderLinksOf(s0, names) ==
    Only({IF s1.err # NoErr THEN s1
          ELSE Only({IF s2.err # NoErr THEN s2
          ELSE WithOrder(OrderLinksSecondLoop(Strip(s2), s2.ord, 1), s2.ord)
          : s2 \in {Normalize(s1, LinkGraph(s1.g, names), names)}})
          : s1 \in {OrderLinksFirstLoop(s0, names, 1)}})

OrderLinks ==
    /\ pc = "order_links"
    /\ Order("link", "order_link_properties",
             OrderLinksOf(Start, GlobalOfKind(globalindex, "link")))

-----------------------------------------------------------------------------
(* order_link_properties, order_computables, order_atoms                   *)

\* g[prop.name]["merge"] of order_link_properties
LinkPropertyMergeList(prop) == prop.base

\* the graph order_link_properties hands to topological.normalize
LinkPropertyGraph(g, names) ==
    [n \in SeqToSet(names) |-> LinkPropertyMergeList(Get(g, n))]

\* order_link_properties(globalmeta)
OrderLinkPropertiesOf(s0, names) ==
    Normalize(s0, LinkPropertyGraph(s0.g, names), names)

OrderLinkProperties ==
    /\ pc = "order_link_properties"
    /\ Order("link_property", "order_computables",
             OrderLinkPropertiesOf(Start, GlobalOfKind(globalindex, "link_property")))

\* order_computables returns the iterator of the global index; construct runs it
\* in its loop over computables
OrderComputables ==
    /\ pc = "order_computables"
    /\ pc' = "order_atoms"
    /\ UNCHANGED <<data, globalindex, localindex, finalindex, ordered, err>>

\* order_atoms that skips atom.add_constraint for the constraints of the atom
OrderAtomsFirstNoConstraints(s, aname) ==
    Only({IF atom.base # <<>> /\ ~Has(s.g, atom.base[1])
          THEN Raise(s, CaosMetaError("unresolved", {atom.base[1]}))
          ELSE s
          : atom \in {Get(s.g, aname)}})

\* the first loop of order_atoms, for one atom: its own constraints are added
OrderAtomsFirst(s, aname) ==
    Only({IF atom.base # <<>> /\ ~Has(s.g, atom.base[1])
          THEN Raise(s, CaosMetaError("unresolved", {atom.base[1]}))
          ELSE [s EXCEPT !.g = Put(@, [atom EXCEPT
                    !.constraints = MergeConstraints(atom.rawcons, <<@>>)])]
          : atom \in {Get(s.g, aname)}})

\* order_atoms that leaves g[atom.name]["merge"] empty
AtomMergeListEmpty(atom) == <<>>

\* g[atom.name]["merge"] of order_atoms: the base, when it is an atom
AtomMergeList(atom) == atom.base

\* the loop of order_atoms
RECURSIVE OrderAtomsFirstLoop(_, _, _)
OrderAtomsFirstLoop(s, seq, i) ==
    IF i > Len(seq) \/ s.err # NoErr THEN s
    ELSE Only({OrderAtomsFirstLoop(t, seq, i + 1)
               : t \in {OrderAtomsFirst(s, seq[i])}})

\* the graph order_atoms hands to topological.normalize
AtomGraph(g, names) == [n \in SeqToSet(names) |-> AtomMergeList(Get(g, n))]

\* order_atoms(globalmeta)
OrderAtomsOf(s0, names) ==
    Only({IF s1.err # NoErr THEN s1
          ELSE Normalize(s1, AtomGraph(s1.g, names), names)
          : s1 \in {OrderAtomsFirstLoop(s0, names, 1)}})

OrderAtoms ==
    /\ pc = "order_atoms"
    /\ Order("atom", "add_atoms", OrderAtomsOf(Start, GlobalOfKind(globalindex, "atom")))

-----------------------------------------------------------------------------
(* The loops of construct that fill the final index.                       *)

\* a construct that inserts every declaration, whatever its module
InsertedAlways(g, name) == TRUE

\* a construct that leaves the automatic atoms out of the final index
InsertedNotAutomatic(g, name) ==
    (data.builtin \/ Get(g, name).module # BuiltinModule) /\ ~Get(g, name).automatic

\* include_builtin or obj.name.module != 'semantix.caos.builtins'
Inserted(g, name) == data.builtin \/ Get(g, name).module # BuiltinModule

\* a loop of construct that stops after its first declaration
AddKindFirstOnly(names) ==
    LET keep(n) == Inserted(globalindex, n)
    IN  finalindex' = finalindex \o Only({IF kept = <<>> THEN kept ELSE <<Head(kept)>>
                                          : kept \in {SelectSeq(names, keep)}})

\* one loop of construct: names is the list an order_* method returned
AddKind(names) ==
    LET keep(n) == Inserted(globalindex, n)
    IN  finalindex' = finalindex \o SelectSeq(names, keep)

AddAtoms ==
    /\ pc = "add_atoms"
    /\ AddKind(ordered["atom"])
    /\ pc' = "add_computables"
    /\ UNCHANGED <<data, globalindex, localindex, ordered, err>>

AddComputables ==
    /\ pc = "add_computables"
    /\ AddKind(GlobalOfKind(globalindex, "computable"))
    /\ pc' = "add_link_properties"
    /\ UNCHANGED <<data, globalindex, localindex, ordered, err>>

AddLinkProperties ==
    /\ pc = "add_link_properties"
    /\ AddKind(ordered["link_property"])
    /\ pc' = "add_links"
    /\ UNCHANGED <<data, globalindex, localindex, ordered, err>>

AddLinks ==
    /\ pc = "add_links"
    /\ AddKind(ordered["link"])
    /\ pc' = "add_concepts"
    /\ UNCHANGED <<data, globalindex, localindex, ordered, err>>

AddConcepts ==
    /\ pc = "add_concepts"
    /\ AddKind(ordered["concept"])
    /\ pc' = "done"
    /\ UNCHANGED <<data, globalindex, localindex, ordered, err>>

-----------------------------------------------------------------------------
(* The raw declaration trees.                                              *)

AtomIn(name, extends, final, cons) ==
    [name |-> name, extends |-> extends, final |-> final, title |-> "", cons |-> cons]

LinkPropIn(name, extends, title) == [name |-> name, extends |-> extends, title |-> title]

PropIn(name, target, title) ==
    [name |-> name, target |-> target, title |-> title, default |-> <<>>,
     pcons |-> <<>>, acons |-> <<>>]

\* an expression and what the expression service infers for it
Expr(cols, refs) ==
    [text |-> "q", norm |-> FALSE, cols |-> cols, refs |-> refs, raises |-> FALSE]

CompIn(name, expr) == [name |-> name, expr |-> expr]

LinkIn(name, extends, final, mapping, title, props, comps) ==
    [name |-> name, extends |-> extends, final |-> final, mapping |-> mapping,
     title |-> title, props |-> props, comps |-> comps, indexes |-> <<>>]

\* a literal default and a query default
Literal == [query |-> FALSE, norm |-> FALSE, cols |-> <<>>, raises |-> FALSE]
Query(cols) == [query |-> TRUE, norm |-> FALSE, cols |-> cols, raises |-> FALSE]

\* an expression, or a query default, with a reference the expression service
\* cannot resolve
Raising(e) == [e EXCEPT !.raises = TRUE]

\* an index of a source: its context in the document, and the call of the
\* expression service that raises on its expression, "" for none
IndexIn(ctx, fails) == [ctx |-> ctx, fails |-> fails, norm |-> FALSE]

\* a link or a concept with an indexes section
Indexed(source, indexes) == [source EXCEPT !.indexes = indexes]

CLinkIn(name, target, mapping, required, title, default, cons, props) ==
    [name |-> name, target |-> target, mapping |-> mapping, required |-> required,
     title |-> title, default |-> default, cons |-> cons, props |-> props,
     pcons |-> <<>>, acons |-> <<>>]

\* a pointer with the pointer constraints of its constraints and
\* abstract-constraints sections
Constrained(pointer, pcons, acons) == [pointer EXCEPT !.pcons = pcons, !.acons = acons]

ConceptIn(name, extends, final, title, links, comps) ==
    [name |-> name, extends |-> extends, final |-> final, title |-> title,
     links |-> links, comps |-> comps, indexes |-> <<>>]

Data(atoms, linkprops, links, concepts) ==
    [module |-> UserModule, toplevel |-> TRUE, builtin |-> FALSE,
     atoms |-> atoms, linkprops |-> linkprops, links |-> links, concepts |-> concepts]

\* the largest value of a constraint
MaxValue == 1

\* the most result columns of an expression
MaxCols == 2

\* atoms a1, a2, a3 with bases, final flags and constraints, in two orders
AtomTrees ==
    LET cons1 == {{}} \cup {{<<"min-value", v>>} : v \in 0..MaxValue}
        cons2 == {{}, {<<"min-value", MaxValue>>}, {<<"max-value", MaxValue>>}}
        trees == {<<AtomIn("a1", e1, f1, c1), AtomIn("a2", e2, FALSE, c2),
                    AtomIn("a3", e3, FALSE, {})>> :
                    e1 \in {"", "a2", "str"}, f1 \in BOOLEAN, c1 \in cons1,
                    e2 \in {"", "a1", "a3"}, c2 \in cons2, e3 \in {"", "a2"}}
    IN  {Data(t, <<>>, <<>>, <<>>) : t \in trees}
        \cup {Data(<<t[3], t[2], t[1]>>, <<>>, <<>>, <<>>) : t \in trees}

\* a LinkList.construct that makes the link of a bare target required
ShortLinkRequired(name, target) == CLinkIn(name, target, "", "true", "", <<>>, {}, <<>>)

\* LinkList.construct for a link of a concept in its short form, a bare
\* target: no attribute but the target is set
ShortLink(name, target) == CLinkIn(name, target, "", "", "", <<>>, {}, <<>>)

\* LinkList.construct for a link of a concept in its long form, a mapping from
\* the target to info
LongLink(name, target, info) ==
    Constrained(CLinkIn(name, target, info.mapping, info.required, info.title,
                        info.default, info.cons, info.props),
                info.pcons, info.acons)

\* the info of the long form {T: {}}: every key has the value of a key that is
\* not given
EmptyInfo ==
    [mapping |-> "", required |-> "", title |-> "", default |-> <<>>, cons |-> {},
     props |-> <<>>, pcons |-> <<>>, acons |-> <<>>]

\* concepts A, B, C with bases, final flags, titles and a link x, in two orders
ConceptTrees ==
    LET linkx(required) == CLinkIn("x", "str", "", required, "", <<>>, {}, <<>>)
        trees == {<<ConceptIn("A", ea, fa, ta, <<linkx("true")>>, <<>>),
                    ConceptIn("B", eb, fb, tb, lb, <<>>),
                    ConceptIn("C", ec, FALSE, tc, <<>>, <<>>)>> :
                    ea \in {<<>>, <<"C">>}, fa \in BOOLEAN, ta \in {"", "TA"},
                    eb \in {<<>>, <<"A">>}, fb \in BOOLEAN, tb \in {"", "TB"},
                    lb \in {<<>>, <<linkx("false")>>},
                    ec \in {<<>>, <<"A", "B">>, <<"B", "A">>}, tc \in {"", "TC"}}
    IN  {Data(<<>>, <<>>, <<>>, t) : t \in trees}
        \cup {Data(<<>>, <<>>, <<>>, <<t[3], t[2], t[1]>>) : t \in trees}

\* generic links l1, l2, l3 with bases, final flags, titles and a property p1
LinkTrees ==
    LET trees == {<<LinkIn("l1", e1, f1, "*1", t1, p1, <<>>),
                    LinkIn("l2", e2, FALSE, "**", t2, p2, <<>>),
                    LinkIn("l3", e3, FALSE, "", "", <<>>, <<>>)>> :
                    e1 \in {<<>>, <<"l3">>}, f1 \in BOOLEAN, t1 \in {"", "T1"},
                    p1 \in {<<>>, <<PropIn("p1", "str", "P1")>>},
                    e2 \in {<<>>, <<"l1">>}, t2 \in {"", "T2"},
                    p2 \in {<<>>, <<PropIn("p1", "int", "P2")>>},
                    e3 \in {<<>>, <<"l1", "l2">>, <<"l2", "l1">>}}
    IN  {Data(<<>>, <<>>, t, <<>>) : t \in trees}
        \cup {Data(<<>>, <<>>, <<t[3], t[2], t[1]>>, <<>>) : t \in trees}

\* link properties p1, p2 with bases and titles
LinkPropertyTrees ==
    LET trees == {<<LinkPropIn("p1", e1, t1), LinkPropIn("p2", e2, t2)>> :
                    e1 \in {<<>>, <<"p2">>}, t1 \in {"", "T1"},
                    e2 \in {<<>>, <<"p1">>, <<"zz">>}, t2 \in {"", "T2"}}
    IN  {Data(<<>>, t, <<>>, <<>>) : t \in trees}
        \cup {Data(<<>>, <<t[2], t[1]>>, <<>>, <<>>) : t \in trees}

\* a concept A whose links are specialized: one or two entries that may name the
\* same generic link and the same target, a generic link l1 that may be declared,
\* final and many-to-many, an atom a1 that may be final
Specializations ==
    LET inline == {{}, {<<"max-value", MaxValue>>}}
        first == {CLinkIn("x", t, m, "", "", <<>>, c, <<>>) :
                    t \in {"str", "B", "a1"}, m \in {"", "**"}, c \in inline}
        second == {<<>>} \cup {<<ShortLink(n, t)>> :
                                  n \in {"x", "l1"}, t \in {"str", QName(BuiltinModule, "str"), "B"}}
        generic == {<<>>} \cup {<<LinkIn("l1", <<>>, f, m, "", <<>>, <<>>)>> :
                                   f \in BOOLEAN, m \in {"", "**"}}
    IN  {Data(<<AtomIn("a1", "str", f, {})>>, <<>>, g,
              <<ConceptIn("A", <<>>, FALSE, "", <<l1>> \o l2, <<>>),
                ConceptIn("B", <<>>, FALSE, "", <<>>, <<>>)>>) :
            f \in BOOLEAN, g \in generic, l1 \in first, l2 \in second}

\* the name zz declared in one or more sections
NameClashes ==
    {Data(IF a THEN <<AtomIn("zz", "", FALSE, {})>> ELSE <<>>,
          IF p THEN <<LinkPropIn("zz", <<>>, "")>> ELSE <<>>,
          IF l THEN <<LinkIn("zz", <<>>, FALSE, "", "", <<>>, <<>>)>> ELSE <<>>,
          IF c THEN <<ConceptIn("zz", <<>>, FALSE, "", <<>>, <<>>)>> ELSE <<>>) :
        a \in BOOLEAN, p \in BOOLEAN, l \in BOOLEAN, c \in BOOLEAN}

\* the result types the expression service may infer; "" is a type it could
\* not determine
ResultTypes == {"", QName(BuiltinModule, "str"), "m.a1", "m.B", "m.C"}

\* the result columns of an expression
Columns == UNION {[1..n -> ResultTypes] : n \in 1..MaxCols}

\* a computable zz on concept A and a computable y on link l1; B may extend A
Computables ==
    {Data(<<AtomIn("a1", "str", FALSE, {})>>, <<>>,
          <<LinkIn("l1", <<>>, FALSE, "", "", <<>>, <<CompIn("y", Expr(cl, {"self"}))>>)>>,
          <<ConceptIn("A", <<>>, FALSE, "", <<>>, <<CompIn("zz", Expr(cc, r))>>),
            ConceptIn("B", eb, FALSE, "", <<>>, <<>>),
            ConceptIn("C", <<"B">>, FALSE, "", <<>>, <<>>)>>) :
        cl \in {<<QName(BuiltinModule, "str")>>, <<"m.B">>, <<"">>, <<"m.a1", "m.B">>},
        cc \in Columns, r \in {{}, {"self"}, {"m.B"}, {"self", "m.B"}},
        eb \in {<<>>, <<"A">>}}

\* a link x of concept A with a default
Defaults ==
    {Data(<<AtomIn("a1", "str", FALSE, {})>>, <<>>, <<>>,
          <<ConceptIn("A", <<>>, FALSE, "",
                      <<CLinkIn("x", t, m, "", "", d, {}, <<>>)>>, <<>>),
            ConceptIn("B", <<>>, FALSE, "", <<>>, <<>>),
            ConceptIn("C", <<"B">>, FALSE, "", <<>>, <<>>)>>) :
        t \in {"str", "a1", "B"}, m \in {"", "11", "1*", "*1", "**"},
        d \in {<<Literal>>} \cup {<<Query(c)>> : c \in Columns}
                            \cup {<<Literal, Query(c)>> : c \in Columns}}

\* the constraints section of a pointer: empty, unique: true, or unique: an
\* expression
UniqueSections ==
    {<<>>, <<PointerConstraintUnique(NotStr("true"))>>, <<PointerConstraintUnique(Str("q"))>>}

\* a link l1 of concept A to an atom or to a concept, and a property p1 of the
\* generic link l1, with unique constraints
UniqueConstraints ==
    {Data(<<>>, <<>>,
          <<LinkIn("l1", <<>>, FALSE, "", "", props, <<>>)>>,
          <<ConceptIn("A", <<>>, FALSE, "",
                      <<Constrained(ShortLink("l1", t), pc1, ac1)>>, <<>>),
            ConceptIn("B", <<>>, FALSE, "", <<>>, <<>>)>>) :
        t \in {"str", "B"}, pc1 \in UniqueSections, ac1 \in UniqueSections,
        props \in {<<>>} \cup {<<Constrained(PropIn("p1", "str", ""), pc2, ac2)>> :
                                  pc2 \in UniqueSections, ac2 \in UniqueSections}}

\* the import contexts: one tree with a declaration of each kind, loaded as the
\* top-level module or as an import, with or without the builtin flag, under
\* the name of a user module or of the builtin module; the target zz of the
\* link is undeclared
ImportContexts ==
    {[Data(<<AtomIn("a1", "str", FALSE, {})>>,
           <<LinkPropIn("p1", <<>>, "")>>,
           <<LinkIn("l1", <<>>, FALSE, "", "", <<>>,
                    <<CompIn("y", Expr(<<QName(BuiltinModule, "str")>>, {"self"}))>>)>>,
           <<ConceptIn("A", <<>>, FALSE, "", <<ShortLink("l1", t)>>, <<>>)>>)
         EXCEPT !.module = mod, !.toplevel = top, !.builtin = b] :
        t \in {"a1", "zz"}, mod \in Modules, top \in BOOLEAN, b \in BOOLEAN}

\* what the expression service does with the index of a source
IndexSections(ctx) ==
    {<<>>, <<IndexIn(ctx, "")>>, <<IndexIn(ctx, "normalize")>>, <<IndexIn(ctx, "check")>>}

\* expressions with references the expression service cannot resolve: an
\* index of concept B, then a computable zz, the default of link x and an index
\* of concept A, and a computable y and an index of link l1
Expressions ==
    {[Data(<<>>, <<>>,
          <<Indexed(LinkIn("l1", <<>>, FALSE, "", "", <<>>, y), il)>>,
          <<Indexed(ConceptIn("B", <<>>, FALSE, "", <<>>, <<>>), ib),
            Indexed(ConceptIn("A", <<>>, FALSE, "",
                              <<CLinkIn("x", "str", "", "", "", d, {}, <<>>)>>, zz), ia)>>)
        EXCEPT !.toplevel = top] :
        il \in {<<>>, <<IndexIn("l1.index", "")>>, <<IndexIn("l1.index", "check")>>},
        ib \in {<<>>, <<IndexIn("B.index", "")>>},
        ia \in IndexSections("A.index"),
        y \in {<<>>, <<CompIn("y", Raising(Expr(<<QName(BuiltinModule, "str")>>, {"self"})))>>},
        zz \in {<<>>, <<CompIn("zz", Expr(<<QName(BuiltinModule, "str")>>, {"self"}))>>,
                      <<CompIn("zz", Raising(Expr(<<QName(BuiltinModule, "str")>>, {"self"})))>>},
        d \in {<<>>, <<Raising(Query(<<QName(BuiltinModule, "str")>>))>>},
        top \in BOOLEAN}

\* a link x in its short form on concept A and in its long form with an empty
\* body on concept B, to an atom or a concept; the generic link x may be
\* declared, with a title, a mapping and a property
LinkForms ==
    {Data(<<AtomIn("a1", "str", FALSE, {})>>, <<>>, generic,
          <<ConceptIn("A", <<>>, FALSE, "", <<ShortLink("x", t)>>, <<>>),
            ConceptIn("B", <<>>, FALSE, "", <<LongLink("x", t, EmptyInfo)>>, <<>>),
            ConceptIn("C", <<>>, FALSE, "", <<>>, <<>>)>>) :
        t \in {"str", "a1", "C", "zz"},
        generic \in {<<>>} \cup {<<LinkIn("x", <<>>, FALSE, m, title, props, <<>>)>> :
                                    m \in {"", "11", "**"}, title \in {"", "T1"},
                                    props \in {<<>>, <<PropIn("p1", "str", "")>>}}}

\* what the final pass discovers: a link x of concept A with an inline atom
\* definition, a computable of A and a computable y of link l1, whose generic
\* pointers are declared by no section
Discoveries ==
    {Data(<<>>, <<>>,
          <<LinkIn("l1", <<>>, FALSE, "", "", <<>>, y)>>,
          <<ConceptIn("A", <<>>, FALSE, "",
                      <<CLinkIn("x", "str", "", "", "", <<>>, c, <<>>)>>,
                      <<CompIn(n, Expr(<<QName(BuiltinModule, "str")>>, {"self"}))>>)>>) :
        y \in {<<>>, <<CompIn("y", Expr(<<QName(BuiltinModule, "str")>>, {"self"}))>>},
        c \in {{}, {<<"max-value", MaxValue>>}},
        n \in {"zz", "y", "l1"}}

\* inline link definitions: concepts A and B declare a link named x or link,
\* the module may declare the generic link x, and an atom named x
InlineLinks ==
    {Data(IF a THEN <<AtomIn("x", "str", FALSE, {})>> ELSE <<>>, <<>>, generic,
          <<ConceptIn("A", <<>>, FALSE, "", <<ShortLink(n1, "str")>>, <<>>),
            ConceptIn("B", <<>>, FALSE, "", <<ShortLink(n2, "A")>>, <<>>)>>) :
        a \in BOOLEAN, n1 \in {"x", "link"}, n2 \in {"x", "link"},
        generic \in {<<>>, <<LinkIn("x", <<>>, FALSE, "", "", <<>>, <<>>)>>}}

\* a declaration of each kind whose base is declared or is the name zz, which no
\* section declares
UnresolvedBases ==
    {Data(<<AtomIn("a1", ea, FALSE, {})>>,
          <<LinkPropIn("p1", ep, "")>>,
          <<LinkIn("l1", el, FALSE, "", "", <<>>, <<>>)>>,
          <<ConceptIn("A", ec, FALSE, "", <<>>, <<>>),
            ConceptIn("B", <<>>, FALSE, "", <<>>, <<>>)>>) :
        ea \in {"str", "zz"}, ep \in {<<>>, <<"zz">>}, el \in {<<>>, <<"zz">>},
        ec \in {<<>>, <<"zz">>, <<"B", "zz">>}}

\* a link of concept A, named l1 or x, that may declare property p1 or p2; the
\* generic link l1 may define p1 or p2, the link-properties section may declare p2
SpecializedProperties ==
    {Data(<<>>, lp, <<LinkIn("l1", <<>>, FALSE, "", "", gp, <<>>)>>,
          <<ConceptIn("A", <<>>, FALSE, "",
                      <<CLinkIn(n, "str", "", "", "", <<>>, {}, cp)>>, <<>>)>>) :
        lp \in {<<>>, <<LinkPropIn("p2", <<>>, "")>>},
        gp \in {<<>>, <<PropIn("p1", "str", "")>>, <<PropIn("p2", "str", "")>>},
        n \in {"l1", "x"},
        cp \in {<<>>, <<PropIn("p1", "str", "")>>, <<PropIn("p2", "str", "")>>,
                 <<PropIn("p1", QName(BuiltinModule, "str"), "")>>}}

\* computables named as stored pointers: link l1 defines property p1 and has a
\* computable p1 or y; concept A declares a link x or link and a computable x,
\* zz or link; concept B, which extends A, may declare a computable x
PointerClashes ==
    {Data(<<>>, <<>>,
          <<LinkIn("l1", <<>>, FALSE, "", "", <<PropIn("p1", "str", "")>>,
                   <<CompIn(n1, Expr(<<QName(BuiltinModule, "str")>>, {"self"}))>>)>>,
          <<ConceptIn("A", <<>>, FALSE, "", <<ShortLink(ln, "str")>>,
                      <<CompIn(n2, Expr(<<QName(BuiltinModule, "str")>>, {"self"}))>>),
            ConceptIn("B", <<"A">>, FALSE, "", <<>>, cb)>>) :
        n1 \in {"p1", "y"}, ln \in {"x", "link"}, n2 \in {"x", "zz", "link"},
        cb \in {<<>>, <<CompIn("x", Expr(<<QName(BuiltinModule, "str")>>, {"self"}))>>}}

Inputs ==
    AtomTrees \cup ConceptTrees \cup LinkTrees \cup LinkPropertyTrees
        \cup Specializations \cup NameClashes \cup Computables \cup Defaults
        \cup UniqueConstraints \cup ImportContexts \cup Expressions \cup LinkForms
        \cup Discoveries \cup InlineLinks \cup UnresolvedBases
        \cup SpecializedProperties \cup PointerClashes

-----------------------------------------------------------------------------

Init ==
    /\ pc = "read_atoms"
    /\ data \in Inputs
    /\ globalindex = BuiltinDecls
    /\ localindex = [i \in 1..Len(BuiltinDecls) |-> BuiltinDecls[i].name]
    /\ finalindex = <<>>
    /\ ordered = [k \in {"concept", "link", "link_property", "atom"} |-> <<>>]
    /\ err = NoErr

Next ==
    \/ ReadAtoms
    \/ ReadLinkProperties
    \/ ReadLinks
    \/ ReadConcepts
    \/ OrderConcepts
    \/ OrderLinks
    \/ OrderLinkProperties
    \/ OrderComputables
    \/ OrderAtoms
    \/ AddAtoms
    \/ AddComputables
    \/ AddLinkProperties
    \/ AddLinks
    \/ AddConcepts

Spec == Init /\ [][Next]_vars

-----------------------------------------------------------------------------
(* The atom constraint adapters.  A mapping of one key is constructed into *)
(* a constraint, and a constraint is represented as a mapping of one key.  *)

\* Python values: an int, None, a str, a list and a tuple of values.  A str is
\* the sequence of its spaces, its newlines and its runs of other characters.
PyInt(n) == <<"int", n>>

PyNone == <<"None">>

PyStr(s) == <<"str", s>>

PyList(xs) == <<"list", xs>>

PyTuple(xs) == <<"tuple", xs>>

\* isinstance(v, int)
IsInt(v) == v[1] = "int"

\* str.strip(' \n'): the spaces and newlines at both ends are dropped
RECURSIVE LStrip(_)
LStrip(s) == IF s # <<>> /\ Head(s) \in {" ", "\n"} THEN LStrip(Tail(s)) ELSE s

RECURSIVE RStrip(_)
RStrip(s) ==
    IF s # <<>> /\ s[Len(s)] \in {" ", "\n"} THEN RStrip(SubSeq(s, 1, Len(s) - 1)) ELSE s

StripChars(v) == PyStr(LStrip(RStrip(v[2])))

\* a constraint: cls is the class of proto the adapter adapts, init the class of
\* proto whose __init__ the adapter has called, value what that call was given
\* (the initializers of proto keep the value, or the values, they are given)
ProtoInit(cls, init, value) == [cls |-> cls, init |-> init, value |-> value]

NoConstraint == ProtoInit("", "", PyNone)

\* the mapping of one key
Mapping(key, value) == [key |-> key, value |-> value]

NoMapping == Mapping("", PyNone)

\* the result of a construct: the constraint, or the exception raised
Constructed(obj) == [obj |-> obj, err |-> NoErr]

Raised(e) == [obj |-> NoConstraint, err |-> e]

\* AtomConstraintRounding.map and rmap, the pairs of a name and a rounding mode
RoundingMap ==
    {<<"ceiling", "ROUND_CEILING">>, <<"down", "ROUND_DOWN">>, <<"floor", "ROUND_FLOOR">>,
     <<"half-down", "ROUND_HALF_DOWN">>, <<"half-even", "ROUND_HALF_EVEN">>,
     <<"half-up", "ROUND_HALF_UP">>, <<"up", "ROUND_UP">>, <<"05up", "ROUND_05UP">>}

RoundingRMap == {<<m[2], m[1]>> : m \in RoundingMap}

\* d[k] of a dict given as its pairs
Lookup(d, k) == (CHOOSE m \in d : m[1] = k)[2]

\* AtomConstraintPrecision.construct
AtomConstraintPrecisionConstruct(v) ==
    IF IsInt(v)
    THEN Constructed(ProtoInit("AtomConstraintPrecision", "AtomConstraintPrecision",
                               PyTuple(<<v, PyInt(0)>>)))
    ELSE Only({Only({IF scale >= precision
                     THEN Raised(PyError("ValueError", "scale"))
                     ELSE Constructed(ProtoInit("AtomConstraintPrecision",
                                                "AtomConstraintPrecision",
                                                PyTuple(<<PyInt(precision), PyInt(scale)>>)))
                     : scale \in {v[2][2][2]}})
               : precision \in {v[2][1][2]}})

\* AtomConstraintPrecision.represent
AtomConstraintPrecisionRepresent(obj) ==
    IF obj.value[2][2][1] = "None"
    THEN Mapping("precision", obj.value[2][1])
    ELSE Mapping("precision", PyList(obj.value[2]))

\* the construct of the adapter of each key
AtomConstraintConstruct(raw) ==
    CASE raw.key = "min-length" ->
           Constructed(ProtoInit("AtomConstraintMinLength", "AtomConstraintMinLength",
                                 raw.value))
      [] raw.key = "min-value" ->
           Constructed(ProtoInit("AtomConstraintMinValue", "AtomConstraintMinValue",
                                 raw.value))
      [] raw.key = "min-value-ex" ->
           Constructed(ProtoInit("AtomConstraintMinExValue", "AtomConstraintMinExValue",
                                 raw.value))
      [] raw.key = "max-length" ->
           Constructed(ProtoInit("AtomConstraintMaxLength", "AtomConstraintMaxLength",
                                 raw.value))
      [] raw.key = "max-value" ->
           Constructed(ProtoInit("AtomConstraintMaxValue", "AtomConstraintMaxValue",
                                 raw.value))
      [] raw.key = "max-value-ex" ->
           Constructed(ProtoInit("AtomConstraintMaxExValue", "AtomConstraintMaxValue",
                                 raw.value))
      [] raw.key = "precision" -> AtomConstraintPrecisionConstruct(raw.value)
      [] raw.key = "rounding" ->
           IF \E m \in RoundingMap : m[1] = raw.value[2][1]
           THEN Constructed(ProtoInit("AtomConstraintRounding", "AtomConstraintRounding",
                                      PyStr(<<Lookup(RoundingMap, raw.value[2][1])>>)))
           ELSE Raised(PyError("KeyError", "rounding"))
      [] raw.key = "expr" ->
           Constructed(ProtoInit("AtomConstraintExpr", "AtomConstraintExpr",
                                 PyList(<<StripChars(raw.value)>>)))
      [] raw.key = "regexp" ->
           Constructed(ProtoInit("AtomConstraintRegExp", "AtomConstraintRegExp",
                                 PyList(<<raw.value>>)))

\* the represent of the adapter of each class
AtomConstraintRepresent(obj) ==
    CASE obj.cls = "AtomConstraintMinLength" -> Mapping("min-length", obj.value)
      [] obj.cls = "AtomConstraintMinValue" -> Mapping("min-value", obj.value)
      [] obj.cls = "AtomConstraintMinExValue" -> Mapping("min-value-ex", obj.value)
      [] obj.cls = "AtomConstraintMaxLength" -> Mapping("max-length", obj.value)
      [] obj.cls = "AtomConstraintMaxValue" -> Mapping("max-value", obj.value)
      [] obj.cls = "AtomConstraintMaxExValue" -> Mapping("max-value-ex", obj.value)
      [] obj.cls = "AtomConstraintPrecision" -> AtomConstraintPrecisionRepresent(obj)
      [] obj.cls = "AtomConstraintRounding" ->
           Mapping("rounding", PyStr(<<Lookup(RoundingRMap, obj.value[2][1])>>))
      [] obj.cls = "AtomConstraintExpr" -> Mapping("expr", obj.value[2][1])
      [] obj.cls = "AtomConstraintRegExp" -> Mapping("regexp", obj.value[2][1])

\* the largest precision and the largest bound of a constraint
MaxPrecision == 3

\* the most spaces, newlines and runs of other characters of a str
MaxChars == 2

\* the strs of at most MaxChars parts
Strs ==
    UNION {[1..n -> {" ", "\n", "a"}] : n \in 0..MaxChars}

\* the mappings of one key the adapters are given
ConstraintMappings ==
    LET ints == {PyInt(n) : n \in -1..MaxPrecision}
    IN  {Mapping(k, v) : k \in {"min-length", "max-length", "min-value", "min-value-ex",
                                "max-value", "max-value-ex", "precision"}, v \in ints}
        \cup {Mapping("precision", PyList(<<p, s>>)) : p \in ints, s \in ints}
        \cup {Mapping("rounding", PyStr(<<n>>)) :
                n \in {m[1] : m \in RoundingMap} \cup {"nearest"}}
        \cup {Mapping(k, PyStr(s)) : k \in {"expr", "regexp"}, s \in Strs}

\* a mapping is loaded
AdapterInit ==
    /\ pc = "construct"
    /\ data \in {[raw |-> m, obj |-> NoConstraint, repr |-> NoMapping] :
                   m \in ConstraintMappings}
    /\ globalindex = BuiltinDecls
    /\ localindex = [i \in 1..Len(BuiltinDecls) |-> BuiltinDecls[i].name]
    /\ finalindex = <<>>
    /\ ordered = [k \in {"concept", "link", "link_property", "atom"} |-> <<>>]
    /\ err = NoErr

\* construct of the adapter of the key of the mapping
ConstructConstraint ==
    /\ pc = "construct"
    /\ \E r \in {AtomConstraintConstruct(data.raw)} :
          /\ pc' = IF r.err = NoErr THEN "represent" ELSE "failed"
          /\ data' = [data EXCEPT !.obj = r.obj]
          /\ err' = r.err
    /\ UNCHANGED <<globalindex, localindex, finalindex, ordered>>

\* represent of the adapter of the class of the constraint
RepresentConstraint ==
    /\ pc = "represent"
    /\ pc' = "represented"
    /\ data' = [data EXCEPT !.repr = AtomConstraintRepresent(data.obj)]
    /\ UNCHANGED <<globalindex, localindex, finalindex, ordered, err>>

AdapterNext ==
    \/ ConstructConstraint
    \/ RepresentConstraint

AdapterSpec == AdapterInit /\ [][AdapterNext]_vars

-----------------------------------------------------------------------------
(* Properties of the load.                                                 *)

\* a top-level load that filled the final index
Loaded == pc = "done" /\ data.toplevel

\* the load ended with an exception
Failed == pc = "failed"

\* the kinds of declaration a module declares
DeclaredKinds == {"atom", "link_property", "link", "concept"}

\* the positions of the global index that hold a declaration of kind k
Of(k) == {i \in 1..Len(globalindex) : globalindex[i].kind = k}

\* the declaration registered under a name
Registered(name) == Get(globalindex, name)

\* the bases of the declaration at position i that are final declarations
FinalBases(i) ==
    {b \in SeqToSet(globalindex[i].base) :
        Has(globalindex, b) /\ Registered(b).final}

\* C1 as stated: no top-level load fills the final index while an atom, a link
\* property, a link or a concept of the index has a final base.
C1_FinalBaseNeverLoaded ==
    Loaded => \A k \in DeclaredKinds : \A i \in Of(k) : FinalBases(i) = {}

\* C1 for the declarations of the module: no top-level load fills the final index
\* while a declaration that is not an automatic atom has a final base.
C1_DeclaredFinalBaseNeverLoaded ==
    Loaded => \A k \in DeclaredKinds : \A i \in Of(k) :
                  ~globalindex[i].automatic => FinalBases(i) = {}

-----------------------------------------------------------------------------
(* Cyclic inheritance.                                                     *)

\* the declarations of kind k that inherit from themselves through their bases
Cyclic(k) ==
    {n \in {globalindex[i].name : i \in Of(k)} :
        n \in Ancestors(BaseGraph(globalindex), n)}

\* C2: a load whose atoms, link properties, links or concepts inherit in a cycle
\* never fills the final index; the cyclic-inheritance error names exactly the
\* declarations on the cycles of one kind, and no order of that kind is returned.
C2_CycleFailsLoad ==
    /\ Loaded => \A k \in DeclaredKinds : Cyclic(k) = {}
    /\ err.what = "cycle" =>
          /\ Failed
          /\ finalindex = <<>>
          /\ \E k \in DeclaredKinds :
                 Cyclic(k) # {} /\ err.names = Cyclic(k) /\ ordered[k] = <<>>

\* a load that failed on a cycle of two declarations
C2_CycleReported ==
    Failed /\ err.what = "cycle" /\ Cardinality(err.names) >= 2

-----------------------------------------------------------------------------
(* Merge over several bases.                                               *)

\* the qualified name of a declaration of the module
Qualified(n) == QName(data.module, n)

\* the declaration that pointer pname of d refers to
PointerOf(d, pname) ==
    Registered(d.pointers[CHOOSE i \in 1..Len(d.pointers) : d.pointers[i].pname = pname].decl)

\* the names of the links a raw concept declares, of the properties a raw link declares
LinkNames(c) == {c.links[i].name : i \in 1..Len(c.links)}
PropNames(l) == {l.props[i].name : i \in 1..Len(l.props)}

\* the concept part of C3, for the raw concept c with bases b1 and b2
ConceptLeftMost(c, b1, b2) ==
    /\ (c.title = "" /\ b1.title # "" /\ b2.title # "")
          => Registered(Qualified(c.name)).title = b1.title
    /\ \A x \in (LinkNames(b1) \cap LinkNames(b2)) \ LinkNames(c) :
          /\ HasPointer(Registered(Qualified(c.name)), Qualified(x))
          /\ PointerOf(Registered(Qualified(c.name)), Qualified(x)).source
                = Qualified(b1.name)

\* the link part of C3, for the raw link l with bases b1 and b2
LinkLeftMost(l, b1, b2) ==
    /\ (l.title = "" /\ b1.title # "" /\ b2.title # "")
          => Registered(Qualified(l.name)).title = b1.title
    /\ (l.mapping = "" /\ b1.mapping # "" /\ b2.mapping # "")
          => Registered(Qualified(l.name)).mapping = b1.mapping
    /\ \A x \in (PropNames(b1) \cap PropNames(b2)) \ PropNames(l) :
          /\ HasPointer(Registered(Qualified(l.name)), Qualified(x))
          /\ PointerOf(Registered(Qualified(l.name)), Qualified(x)).source
                = Qualified(b1.name)

\* C3: once a kind is ordered, a concept or link with bases [B1, B2] that leaves
\* a title, a mapping or a pointer undeclared while both bases declare it holds
\* the value of B1, whatever the order the declarations were registered in.
C3_LeftMostBaseWins ==
    /\ ordered["concept"] # <<>> =>
          \A c \in SeqToSet(data.concepts) : Len(c.extends) = 2 =>
              ConceptLeftMost(c, RawOf(data.concepts, Qualified(c.extends[1])),
                              RawOf(data.concepts, Qualified(c.extends[2])))
    /\ ordered["link"] # <<>> =>
          \A l \in SeqToSet(data.links) : Len(l.extends) = 2 =>
              LinkLeftMost(l, RawOf(data.links, Qualified(l.extends[1])),
                           RawOf(data.links, Qualified(l.extends[2])))

\* a loaded concept C registered before its bases [B, A], which both declare a
\* title and link x, and C holds the title and the link of B
C3_SecondBaseDeclaredFirst ==
    /\ Loaded
    /\ \E c \in SeqToSet(data.concepts) :
          /\ c.extends = <<"B", "A">> /\ c.title = "" /\ LinkNames(c) = {}
          /\ Pos(globalindex, Qualified(c.name)) < Pos(globalindex, Qualified("A"))
          /\ Registered(Qualified("A")).title = "TA"
          /\ Registered(Qualified(c.name)).title = "TB"
          /\ PointerOf(Registered(Qualified("A")), Qualified("x")).required = "true"
          /\ PointerOf(Registered(Qualified(c.name)), Qualified("x")).required = "false"

-----------------------------------------------------------------------------
(* Override of an inherited pointer.                                       *)

\* every link a raw concept declares with a value of required is the pointer of
\* the registered concept under that name, with that value
OwnLinksKept ==
    \A c \in SeqToSet(data.concepts) : \A j \in 1..Len(c.links) :
        c.links[j].required # "" =>
            /\ PointerOf(Registered(Qualified(c.name)), Qualified(c.links[j].name)).source
                  = Qualified(c.name)
            /\ PointerOf(Registered(Qualified(c.name)), Qualified(c.links[j].name)).required
                  = c.links[j].required

\* what the merge of the concepts leaves alone in the concept at position i: its
\* bases, its final flag, a title it declares, its own pointers and what they
\* declare
ConceptKept(i) ==
    /\ globalindex'[i].name = globalindex[i].name
    /\ globalindex'[i].base = globalindex[i].base
    /\ globalindex'[i].final = globalindex[i].final
    /\ globalindex[i].title # "" => globalindex'[i].title = globalindex[i].title
    /\ globalindex'[i].own = globalindex[i].own
    /\ SubSeq(globalindex'[i].pointers, 1, Len(globalindex[i].pointers))
          = globalindex[i].pointers
    /\ \A j \in 1..Len(globalindex[i].own) :
          \E before \in {Get(globalindex, globalindex[i].own[j].decl)},
             after \in {Get(globalindex', globalindex[i].own[j].decl)} :
              /\ after.source = before.source
              /\ after.required = before.required
              /\ after.title = before.title
              /\ after.mapping = before.mapping

\* C4: after the concepts are merged a pointer a concept declares itself carries
\* the value the concept declared, in the child and in the base alike, and the
\* merge modifies no declared attribute and no own pointer of any concept.
C4_ChildOverrideKeepsBase ==
    /\ [](ordered["concept"] # <<>> => OwnLinksKept)
    /\ [][pc = "order_concepts" /\ pc' = "order_links"
            => \A i \in Of("concept") : ConceptKept(i)]_vars

\* B extends A and redeclares link x as not required: after the merge B holds its
\* own link, A holds its required link, and B inherited the title of A
C4_EmployeeOverridesPerson ==
    /\ pc = "order_links"
    /\ Has(globalindex, Qualified("B"))
    /\ Qualified("A") \in SeqToSet(Registered(Qualified("B")).base)
    /\ Registered(Qualified("B")).title = "TA"
    /\ PointerOf(Registered(Qualified("B")), Qualified("x")).source = Qualified("B")
    /\ PointerOf(Registered(Qualified("B")), Qualified("x")).required = "false"
    /\ PointerOf(Registered(Qualified("A")), Qualified("x")).required = "true"

-----------------------------------------------------------------------------
(* Constraints of atoms.                                                   *)

\* the raw atom declared under a local name; a base the module does not declare
\* (semantix.caos.builtins.str) has no constraints and no base
RawAtom(n) ==
    IF \E i \in 1..Len(data.atoms) : data.atoms[i].name = n
    THEN data.atoms[CHOOSE i \in 1..Len(data.atoms) : data.atoms[i].name = n]
    ELSE AtomIn(n, "", FALSE, {})

\* the kinds of constraint in a set
ConstraintKinds(cons) == {c[1] : c \in cons}

\* the constraints atom n holds by declaration and by inheritance, read off the
\* raw declarations along at most depth bases
RECURSIVE ChainConstraints(_, _)
ChainConstraints(n, depth) ==
    IF n = "" \/ depth = 0 THEN {}
    ELSE Only({a.cons \cup {c \in ChainConstraints(a.extends, depth - 1) :
                                c[1] \notin ConstraintKinds(a.cons)}
               : a \in {RawAtom(n)}})

\* C5: once the atoms are ordered and merged, every declared atom holds its own
\* constraints and those of its transitive bases, a constraint of the atom
\* replacing the constraint of the same kind of a base.
C5_AtomConstraintsAccumulate ==
    ordered["atom"] # <<>> =>
        \A i \in 1..Len(data.atoms) :
            Registered(Qualified(data.atoms[i].name)).constraints
                = ChainConstraints(data.atoms[i].name, Len(data.atoms) + 1)

\* a3 declares no constraint and extends a2 {max-value}, which extends
\* a1 {min-value 0}: the loaded a3 holds both
C5_PercentOfPosInt ==
    /\ Loaded
    /\ RawAtom("a3").cons = {} /\ RawAtom("a3").extends = "a2"
    /\ RawAtom("a2").cons = {<<"max-value", MaxValue>>} /\ RawAtom("a2").extends = "a1"
    /\ RawAtom("a1").cons = {<<"min-value", 0>>}
    /\ Registered(Qualified("a3")).constraints
          = {<<"min-value", 0>>, <<"max-value", MaxValue>>}

-----------------------------------------------------------------------------
(* Specialized pointers.                                                   *)

\* the qualified name of the specialization of pointer pname from source to target
NameOfTriple(source, pname, target) ==
    QName(ModuleOf(pname), GenerateName(source, target, pname))

\* the positions of the index that hold a specialized link or link property
Specialized ==
    {i \in 1..Len(globalindex) :
        globalindex[i].kind \in {"link", "link_property"} /\ globalindex[i].source # ""}

\* the target a specialized pointer was declared with: order_concepts replaces
\* the target of a link with inline constraints by the automatic atom
DeclaredTarget(d) ==
    IF Has(globalindex, d.target) /\ Registered(d.target).automatic
    THEN Registered(d.target).base[1] ELSE d.target

\* the qualified name a raw target stands for
ResolvedTarget(t) ==
    IF IsQualified(t) THEN t
    ELSE IF \E i \in 1..Len(data.atoms) : data.atoms[i].name = t THEN Qualified(t)
    ELSE IF \E i \in 1..Len(data.concepts) : data.concepts[i].name = t THEN Qualified(t)
    ELSE QName(BuiltinModule, t)

\* the steps of construct that read the declarations
ReadPhases == {"read_atoms", "read_link_properties", "read_links", "read_concepts"}

\* concept c declares link entries j < k with one name and one resolved target
SpecializedTwice(c, j, k) ==
    /\ j < k
    /\ c.links[j].name = c.links[k].name
    /\ ResolvedTarget(c.links[j].target) = ResolvedTarget(c.links[k].target)

-----------------------------------------------------------------------------
(* Uniqueness of qualified names.                                          *)

\* the names a section of the module declares
SectionNames(section) == {section[i].name : i \in 1..Len(section)}

\* the sections that declare a local name, by the kind they declare
DeclaringKinds(n) ==
    {k \in DeclaredKinds :
        n \in SectionNames(IF k = "atom" THEN data.atoms
                           ELSE IF k = "link_property" THEN data.linkprops
                           ELSE IF k = "link" THEN data.links
                           ELSE data.concepts)}

\* the kind of the section construct reads first among those that declare n
FirstKind(n) ==
    IF "atom" \in DeclaringKinds(n) THEN "atom"
    ELSE IF "link_property" \in DeclaringKinds(n) THEN "link_property"
    ELSE IF "link" \in DeclaringKinds(n) THEN "link"
    ELSE "concept"

-----------------------------------------------------------------------------
(* Computables.                                                            *)

\* the raw computables of a section, each with the raw source that declares it
RawComputables(section) ==
    UNION {{<<src, src.comps[i]>> : i \in 1..Len(src.comps)} : src \in SeqToSet(section)}

\* the registered computable of a raw source and a raw computable
ComputableAt(src, comp) ==
    globalindex[CHOOSE i \in Of("computable") :
                    /\ globalindex[i].source = Qualified(src.name)
                    /\ globalindex[i].normal = Qualified(comp.name)]

\* the computable of src is registered
ComputableRead(src, comp) ==
    \E i \in Of("computable") : /\ globalindex[i].source = Qualified(src.name)
                                /\ globalindex[i].normal = Qualified(comp.name)

\* nothing of a computable has been set from its expression
Unset(c) ==
    c.target = "" /\ ~c.expr.norm /\ c.is_local = "" /\ c.is_atom = "" /\ c.base = <<>>

\* the exceptions of the checks normalize_computables makes on the result types
ComputableErrors == {"computable_type", "computable_columns", "computable_nonscalar"}

\* order_concepts (kind "concept") or order_links (kind "link") ended with an
\* exception of normalize_computables
FailedOnComputable(kind) ==
    /\ Failed /\ err.what \in ComputableErrors /\ ordered[kind] = <<>>
    /\ kind = "link" => ordered["concept"] # <<>>

\* a computable of a source of the kind is rejected with a schema error: the load
\* does not complete, the exception its check raises is a schema error, and
\* nothing is set on the computable
RejectedBySchemaError(kind, src, comp) ==
    /\ ~Loaded
    /\ FailedOnComputable(kind) => IsSchemaError(err)
    /\ ComputableRead(src, comp) => Unset(ComputableAt(src, comp))

\* C8 as stated: a computable of a concept or of a link whose expression yields
\* two or more result columns is rejected with a schema error and nothing is set
\* on it.
C8_ColumnsRejectedBySchemaError ==
    /\ \A sc \in RawComputables(data.concepts) :
          Len(sc[2].expr.cols) # 1 => RejectedBySchemaError("concept", sc[1], sc[2])
    /\ \A sc \in RawComputables(data.links) :
          Len(sc[2].expr.cols) # 1 => RejectedBySchemaError("link", sc[1], sc[2])

\* C8 for expressions whose first result type was determined: the rejection is a
\* schema error.
C8_DeterminedColumnsRejectedBySchemaError ==
    /\ \A sc \in RawComputables(data.concepts) :
          (Len(sc[2].expr.cols) # 1 /\ sc[2].expr.cols[1] # "")
              => RejectedBySchemaError("concept", sc[1], sc[2])
    /\ \A sc \in RawComputables(data.links) :
          (Len(sc[2].expr.cols) # 1 /\ sc[2].expr.cols[1] # "")
              => RejectedBySchemaError("link", sc[1], sc[2])

-----------------------------------------------------------------------------
(* Result type of a computable.                                            *)

\* the raw computable yields one result column of a determined type
OneType(comp) == Len(comp.expr.cols) = 1 /\ comp.expr.cols[1] # ""

\* the kind of a result type, by the section that declares it
TypeKind(t) ==
    IF t \in {Qualified(n) : n \in SectionNames(data.atoms)} \/ ModuleOf(t) = BuiltinModule
    THEN "atom" ELSE "concept"

\* a computable of a concept is accepted: order_concepts raises no exception of
\* normalize_computables, and once the concepts are ordered the computable has
\* the result type as its target
Accepted(src, comp) ==
    /\ ~FailedOnComputable("concept")
    /\ ordered["concept"] # <<>> =>
          /\ ComputableAt(src, comp).target = comp.expr.cols[1]
          /\ ComputableAt(src, comp).expr.norm
          /\ ComputableAt(src, comp).is_atom = Flag(TypeKind(comp.expr.cols[1]) = "atom")

\* C9: a computable of a link whose one result type is not an atom is rejected by
\* the schema error of the scalar check and nothing is set on it; a computable of
\* a concept whose one result type is an atom or a concept is accepted.
C9_LinkComputableScalar ==
    /\ \A sc \in RawComputables(data.links) :
          (OneType(sc[2]) /\ TypeKind(sc[2].expr.cols[1]) # "atom") =>
              /\ RejectedBySchemaError("link", sc[1], sc[2])
              /\ FailedOnComputable("link") => err.what = "computable_nonscalar"
    /\ \A sc \in RawComputables(data.concepts) :
          OneType(sc[2]) => Accepted(sc[1], sc[2])

\* the computable of concept A has the concept B as its target and the load then
\* fails on the computable of link l1, whose result type is the concept B
C9_ConceptTypeOnLinkRejected ==
    /\ FailedOnComputable("link") /\ err.what = "computable_nonscalar"
    /\ \E sc \in RawComputables(data.concepts) :
          /\ sc[2].expr.cols = <<Qualified("B")>>
          /\ ComputableAt(sc[1], sc[2]).target = Qualified("B")
          /\ ComputableAt(sc[1], sc[2]).is_atom = "false"
    /\ \E sc \in RawComputables(data.links) :
          /\ sc[2].expr.cols = <<Qualified("B")>>
          /\ Unset(ComputableAt(sc[1], sc[2]))

-----------------------------------------------------------------------------
(* Query defaults.                                                         *)

\* the raw query defaults: the concept, the position of the link in the concept
\* and the position of the default in the link
RawQueryDefaults ==
    UNION {UNION {{<<c, j, i>> : i \in {i \in 1..Len(c.links[j].default) :
                                            c.links[j].default[i].query}}
                  : j \in 1..Len(c.links)}
           : c \in SeqToSet(data.concepts)}

\* the name of the specialized link of a raw link of a concept
LinkNameOf(c, ln) ==
    NameOfTriple(Qualified(c.name), Qualified(ln.name), ResolvedTarget(ln.target))

\* the query yields exactly one column, of the target type or of a subtype of it
DefaultFits(d, target) ==
    Len(d.cols) = 1 /\ IsSubclass(globalindex, d.cols[1], target)

\* the exceptions normalize_pointer_defaults ends with
DefaultErrors == {"default_type", "default_mapping", "issubclass"}

\* the claim of C10 for the default at position i of the registered link: it is
\* normalized only if it fits, and one that does not fit keeps its text and ends
\* the load with the default-type-mismatch schema error
DefaultChecked(link, i) ==
    /\ link.default[i].norm => DefaultFits(link.default[i], link.target)
    /\ ~DefaultFits(link.default[i], link.target) =>
          /\ ~Loaded
          /\ ~link.default[i].norm
          /\ (Failed /\ err.what \in DefaultErrors)
                => err = MetaError("default_type", link.name, {link.target})

\* C10 as stated: every query default is accepted only if it yields one column of
\* the target type or a subtype, and is otherwise refused with the
\* default-type-mismatch schema error, its text left as written.
C10_DefaultTypeChecked ==
    \A r \in RawQueryDefaults :
        Has(globalindex, LinkNameOf(r[1], r[1].links[r[2]]))
            => DefaultChecked(Registered(LinkNameOf(r[1], r[1].links[r[2]])), r[3])

\* C10 for the queries that do not yield one column of an undetermined type.
C10_DeterminedDefaultTypeChecked ==
    \A r \in RawQueryDefaults :
        (/\ Has(globalindex, LinkNameOf(r[1], r[1].links[r[2]]))
         /\ r[1].links[r[2]].default[r[3]].cols # <<"">>)
            => DefaultChecked(Registered(LinkNameOf(r[1], r[1].links[r[2]])), r[3])

-----------------------------------------------------------------------------
(* Mapping of a concept link with a query default.                         *)

\* the mappings by name (caos.types)
OneToOne == "11"
OneToMany == "1*"
ManyToOne == "*1"
ManyToMany == "**"

\* the default at position i of the registered link is a query default on a link
\* to a concept: it is normalized only with a mapping of the set, and one that fits
\* the target type under another mapping ends the load with the mapping error
MappingChecked(link, i, mappings) ==
    KindOf(globalindex, link.target) = "concept" =>
        /\ link.default[i].norm => link.mapping \in mappings
        /\ (link.mapping \notin mappings /\ DefaultFits(link.default[i], link.target)) =>
              /\ ~Loaded
              /\ ~link.default[i].norm
              /\ (Failed /\ err.what \in DefaultErrors)
                    => err = MetaError("default_mapping", link.name, {link.target})

\* C11 as stated: a query default on a link to a concept is accepted only with a
\* one-to-many or many-to-many mapping, and is refused with the mapping error
\* under any other mapping.
C11_QueryDefaultOneToMany ==
    \A r \in RawQueryDefaults :
        Has(globalindex, LinkNameOf(r[1], r[1].links[r[2]]))
            => MappingChecked(Registered(LinkNameOf(r[1], r[1].links[r[2]])), r[3],
                              {OneToMany, ManyToMany})

\* C11 with the mappings the code tests for, many-to-one and many-to-many.
C11_QueryDefaultManyToOne ==
    \A r \in RawQueryDefaults :
        Has(globalindex, LinkNameOf(r[1], r[1].links[r[2]]))
            => MappingChecked(Registered(LinkNameOf(r[1], r[1].links[r[2]])), r[3],
                              {ManyToOne, ManyToMany})

-----------------------------------------------------------------------------
(* Mapping of a link to an atom.                                           *)

\* the links of the final index whose target is an atom
FinalAtomLinks ==
    {n \in SeqToSet(finalindex) :
        Registered(n).kind = "link" /\ KindOf(globalindex, Registered(n).target) = "atom"}

\* C12 as stated: in a finished final index every link to an atom has the
\* one-to-one mapping, declared or left to its default.
C12_AtomLinksOneToOne ==
    Loaded => \A n \in FinalAtomLinks : Registered(n).mapping \in {"", OneToOne}

\* C12 for the mapping a concept declares on its link: a link to an atom declared
\* with a mapping other than one-to-one never loads.
C12_DeclaredAtomLinksOneToOne ==
    Loaded => \A c \in SeqToSet(data.concepts) : \A j \in 1..Len(c.links) :
                  TypeKind(ResolvedTarget(c.links[j].target)) = "atom"
                      => c.links[j].mapping \in {"", OneToOne}

-----------------------------------------------------------------------------
(* Unique constraints of pointers.                                         *)

\* a unique constraint of the admitted shape: exactly one value, an expression
\* string on a pointer that is not atomic, and not a string on an atomic one
ValidUnique(c, atomic) ==
    Cardinality(c[2]) = 1 /\ \A v \in c[2] : v.str = ~atomic

\* the pointer is atomic: a link property, or a link to an atom
AtomicPointer(d) ==
    d.kind = "link_property" \/ KindOf(globalindex, d.target) = "atom"

\* the raw pointers: the pointer constraints of both sections, and whether the
\* pointer is atomic
RawPointers ==
    UNION {{<<l.props[i].pcons \o l.props[i].acons, TRUE>> : i \in 1..Len(l.props)}
           : l \in SeqToSet(data.links)}
    \cup UNION {{<<c.links[j].pcons \o c.links[j].acons,
                   TypeKind(ResolvedTarget(c.links[j].target)) = "atom">>
                 : j \in 1..Len(c.links)}
                : c \in SeqToSet(data.concepts)}

\* a raw pointer has a unique constraint that is not of the admitted shape
InvalidUniqueDeclared ==
    \E r \in RawPointers : \E i \in 1..Len(r[1]) :
        r[1][i][1] = "unique" /\ ~ValidUnique(r[1][i], r[2])

\* the exceptions add_pointer_constraints ends with
UniqueErrors == {"invalid_unique_atom", "invalid_unique_concept"}

\* the unique constraints attached to the declaration at position i
AttachedUnique(i) ==
    {c \in globalindex[i].constraints \cup globalindex[i].abstract_constraints :
        c[1] = "unique"}

\* C13: a unique constraint is attached to a link or a link property only if it
\* has exactly one value, which is not a string when the pointer is atomic and
\* is an expression string when it is not; a load that declares a unique
\* constraint of any other shape ends with the invalid-constraint error at the
\* latest in order_links.
C13_UniqueConstraintShape ==
    /\ \A i \in 1..Len(globalindex) :
           globalindex[i].kind \in {"link", "link_property"}
               => \A c \in AttachedUnique(i) : ValidUnique(c, AtomicPointer(globalindex[i]))
    /\ InvalidUniqueDeclared =>
           /\ pc \in ReadPhases \cup {"order_concepts", "order_links", "failed"}
           /\ Failed => err.what \in UniqueErrors

\* unique: true on the link l1 of A to the concept B is refused in order_links,
\* after the property p1 of l1 took its constraint unique: true
C13_UniqueTrueOnConceptLinkRefused ==
    /\ Failed
    /\ err = CaosMetaError("invalid_unique_concept", {Qualified("l1")})
    /\ \E c \in SeqToSet(data.concepts) : \E j \in 1..Len(c.links) :
           /\ c.links[j].pcons = <<PointerConstraintUnique(NotStr("true"))>>
           /\ Has(globalindex, LinkNameOf(c, c.links[j]))
           /\ Registered(LinkNameOf(c, c.links[j])).constraints = {}
           /\ Registered(LinkNameOf(c, c.links[j])).target = Qualified("B")
    /\ \E i \in 1..Len(globalindex) :
           /\ globalindex[i].kind = "link_property"
           /\ PointerConstraintUnique(NotStr("true")) \in globalindex[i].constraints

-----------------------------------------------------------------------------
(* The final index the caller sees.                                        *)

\* construct has returned: items() hands the final index to the caller
Observable == pc = "done"

\* the five kinds of declarations
FinalKinds == {"atom", "computable", "link_property", "link", "concept"}

\* the declarations of the global index that belong in the final index
Materialized ==
    {globalindex[i].name : i \in {i \in 1..Len(globalindex) :
        globalindex[i].kind \in FinalKinds /\ Inserted(globalindex, globalindex[i].name)}}

\* the steps of construct that fill the final index
AddPhases == {"add_atoms", "add_computables", "add_link_properties", "add_links",
              "add_concepts"}

-----------------------------------------------------------------------------
(* References of the final index.                                          *)

\* the name stands for a declaration of the final index or of the builtin module
Bound(name) ==
    \/ name \in SeqToSet(finalindex)
    \/ Has(globalindex, name) /\ Registered(name).module = BuiltinModule

\* the names the declaration refers to: its bases and, for a pointer, its
\* source and its target
References(d) ==
    SeqToSet(d.base)
        \cup IF d.kind \in {"link", "link_property", "computable"}
             THEN {d.source, d.target} \ {""} ELSE {}

\* C15: in a finished final index every base of a declaration and every source
\* and target of a link, a link property or a computable names a declaration of
\* the final index or of the builtin module.
C15_NoDanglingReferences ==
    Loaded => \A n \in SeqToSet(finalindex) : \A r \in References(Registered(n)) : Bound(r)

\* a finished index with a specialized link whose target is an automatic atom,
\* a computable and a link property, all bound
C15_BoundSpecializations ==
    /\ Loaded
    /\ \E n \in SeqToSet(finalindex) :
           /\ Registered(n).kind = "link" /\ Registered(n).source # ""
           /\ Registered(Registered(n).target).automatic
           /\ Registered(n).target \in SeqToSet(finalindex)

-----------------------------------------------------------------------------
(* Declarations of the builtin module in the final index.                  *)

\* the declarations of kind k that the builtin module holds in the global index
BuiltinOfKind(k) ==
    {globalindex[i].name : i \in {i \in Of(k) : globalindex[i].module = BuiltinModule}}

\* C16: without the builtin flag the final index never holds a declaration of
\* the builtin module; with the flag a finished final index holds the
\* declarations of the builtin module of each of the five kinds.
C16_BuiltinsOnlyOnRequest ==
    /\ ~data.builtin =>
           \A n \in SeqToSet(finalindex) : Registered(n).module # BuiltinModule
    /\ (data.builtin /\ Loaded) =>
           \A k \in FinalKinds : BuiltinOfKind(k) \subseteq SeqToSet(finalindex)

\* the builtin module loaded with the builtin flag: the finished final index
\* holds a declaration of the builtin module of each kind
C16_BuiltinModuleLoaded ==
    /\ Loaded
    /\ data.builtin
    /\ data.module = BuiltinModule
    /\ \A k \in FinalKinds : BuiltinOfKind(k) # {}
    /\ \A k \in FinalKinds : BuiltinOfKind(k) \subseteq SeqToSet(finalindex)

-----------------------------------------------------------------------------
(* The load of an import.                                                  *)

\* the names the sections of the raw tree declare
DeclaredNames ==
    {Qualified(n) : n \in SectionNames(data.atoms) \cup SectionNames(data.linkprops)
                          \cup SectionNames(data.links) \cup SectionNames(data.concepts)}

\* the declarations with a computable expression or a query default that the
\* expression service has resolved
Resolved ==
    {i \in 1..Len(globalindex) :
        \/ globalindex[i].expr.norm
        \/ \E j \in 1..Len(globalindex[i].default) : globalindex[i].default[j].norm}

\* the declarations with an index expression that the expression service has
\* resolved
ResolvedIndexes ==
    {i \in 1..Len(globalindex) :
        \E j \in 1..Len(globalindex[i].indexes) : globalindex[i].indexes[j].norm}

\* the raw links and concepts
RawSources == SeqToSet(data.links) \cup SeqToSet(data.concepts)

\* a load that is not top-level takes only the read steps: nothing is ordered
\* or merged, nothing is inserted, and when it ends every declaration of the
\* tree is registered in the global and in the local index
ImportRegisters ==
    /\ pc \in ReadPhases \cup {"done", "failed"}
    /\ finalindex = <<>>
    /\ \A k \in DOMAIN ordered : ordered[k] = <<>>
    /\ pc = "done" => \A n \in DeclaredNames :
                          Has(globalindex, n) /\ n \in SeqToSet(localindex)

-----------------------------------------------------------------------------
(* Failures of the expression service.                                     *)

\* the load ended on a failure of the expression service: the reference error
\* itself, its re-raise, or the exception of the handler that re-raises it
ServiceFailed ==
    Failed /\ (err.what = "reference" \/ err.cls = "UnboundLocalError")

\* the contexts of the raw indexes on which call fails of the expression
\* service raises
IndexContexts(fails) ==
    UNION {{src.indexes[j].ctx : j \in {j \in 1..Len(src.indexes) :
                                            src.indexes[j].fails = fails}}
           : src \in RawSources}

\* C19 as stated: a load that ends on a failure of the expression service ends
\* with a schema error that carries the context of the declaration whose
\* expression failed, whether the expression is an index, a computable or a
\* default, and whether or not the source has indexes.
C19_ServiceFailuresWrapped ==
    ServiceFailed => (IsSchemaError(err) /\ err.ctx \in err.names)

\* C19 for the failures of check_source_atomic_expr on an index: the load ends
\* with a MetaError that carries the context of that index.
C19_IndexCheckFailuresWrapped ==
    (ServiceFailed /\ err.names \subseteq IndexContexts("check") /\ err.names # {})
        => (err.cls = "MetaError" /\ err.ctx \in err.names)

-----------------------------------------------------------------------------
(* RealmMeta.represent: the final index as a nested mapping.               *)

\* the own pointers of d that are, or are not, computables
OwnPointerNames(g, d, computables) ==
    {d.own[i].pname : i \in {i \in 1..Len(d.own) :
                                (Get(g, d.own[i].decl).kind = "computable") = computables}}

\* Atom.represent(data)
AtomRepresent(d) ==
    [extends |-> d.base, title |-> d.title, final |-> d.final,
     constraints |-> d.constraints]

\* Concept.represent(data)
ConceptRepresent(g, d) ==
    [extends |-> d.base, title |-> d.title, final |-> d.final,
     links |-> OwnPointerNames(g, d, FALSE),
     computables |-> OwnPointerNames(g, d, TRUE),
     indexes |-> {d.indexes[i].ctx : i \in 1..Len(d.indexes)}]

\* LinkDef.represent(data)
LinkDefRepresent(g, d) ==
    [extends |-> IF Generic(d) THEN d.base ELSE <<>>,
     title |-> d.title, final |-> d.final, mapping |-> d.mapping,
     required |-> d.required,
     properties |-> OwnPointerNames(g, d, FALSE),
     computables |-> OwnPointerNames(g, d, TRUE),
     indexes |-> {d.indexes[i].ctx : i \in 1..Len(d.indexes)}]

\* data(type=kind, include_builtin=False, include_automatic=False), without
\* the links and link properties that are not generic
Represented(g, index, kind) ==
    {n \in SeqToSet(index) :
        /\ Get(g, n).kind = kind
        /\ Get(g, n).module # BuiltinModule
        /\ ~Get(g, n).automatic
        /\ Generic(Get(g, n))}

\* RealmMeta.represent(data)
RealmMetaRepresent(g, index) ==
    [atoms |-> [n \in Represented(g, index, "atom") |-> AtomRepresent(Get(g, n))],
     links |-> [n \in Represented(g, index, "link") |-> LinkDefRepresent(g, Get(g, n))],
     concepts |-> [n \in Represented(g, index, "concept") |-> ConceptRepresent(g, Get(g, n))],
     link_properties |-> Represented(g, index, "link_property")]

\* the mapping represent yields for the final index
Dump == RealmMetaRepresent(globalindex, finalindex)

\* the names of a raw extends list
ResolvedBases(extends) == [i \in 1..Len(extends) |-> ResolvedTarget(extends[i])]

\* the dump of an atom equals its raw declaration; a base that is not declared
\* is a defaulted field
AtomRoundTrip(a) ==
    \E r \in {Dump.atoms[Qualified(a.name)]} :
        /\ a.extends # "" => r.extends = <<ResolvedTarget(a.extends)>>
        /\ r.title = a.title
        /\ r.final = a.final
        /\ r.constraints = a.cons

\* the dump of a concept equals its raw declaration
ConceptRoundTrip(c) ==
    \E r \in {Dump.concepts[Qualified(c.name)]} :
        /\ c.extends # <<>> => r.extends = ResolvedBases(c.extends)
        /\ r.title = c.title
        /\ r.final = c.final
        /\ r.links = {Qualified(n) : n \in LinkNames(c)}
        /\ r.computables = {Qualified(n) : n \in SectionNames(c.comps)}
        /\ r.indexes = {c.indexes[i].ctx : i \in 1..Len(c.indexes)}

\* the dump of a generic link equals its raw declaration
LinkRoundTrip(l) ==
    \E r \in {Dump.links[Qualified(l.name)]} :
        /\ l.extends # <<>> => r.extends = ResolvedBases(l.extends)
        /\ r.title = l.title
        /\ r.final = l.final
        /\ r.mapping = l.mapping
        /\ r.properties = {Qualified(n) : n \in PropNames(l)}
        /\ r.computables = {Qualified(n) : n \in SectionNames(l.comps)}
        /\ r.indexes = {l.indexes[i].ctx : i \in 1..Len(l.indexes)}

\* C18 as stated: represent applied to the final index of a top-level load
\* yields the atoms, the generic links and the concepts of the raw tree, no
\* others, each equal to its raw declaration field for field, names taken in
\* their qualified form and undeclared bases left out of the comparison.
C18_RepresentRoundTrip ==
    (Loaded /\ data.module = UserModule) =>
        /\ DOMAIN Dump.atoms = {Qualified(n) : n \in SectionNames(data.atoms)}
        /\ DOMAIN Dump.links = {Qualified(n) : n \in SectionNames(data.links)}
        /\ DOMAIN Dump.concepts = {Qualified(n) : n \in SectionNames(data.concepts)}
        /\ \A a \in SeqToSet(data.atoms) : AtomRoundTrip(a)
        /\ \A l \in SeqToSet(data.links) : LinkRoundTrip(l)
        /\ \A c \in SeqToSet(data.concepts) : ConceptRoundTrip(c)

\* C18 for the names and for what no merge touches: the atoms and concepts of
\* the dump are those of the raw tree, the generic links of the raw tree are in
\* the dump, and each has the bases, the final flag and the own pointers of its
\* raw declaration and every title the raw declaration states.
C18_RepresentKeepsDeclared ==
    (Loaded /\ data.module = UserModule) =>
        /\ DOMAIN Dump.atoms = {Qualified(n) : n \in SectionNames(data.atoms)}
        /\ DOMAIN Dump.concepts = {Qualified(n) : n \in SectionNames(data.concepts)}
        /\ {Qualified(n) : n \in SectionNames(data.links)} \subseteq DOMAIN Dump.links
        /\ \A a \in SeqToSet(data.atoms) :
               /\ Dump.atoms[Qualified(a.name)].final = a.final
               /\ a.cons \subseteq Dump.atoms[Qualified(a.name)].constraints
               /\ a.title # "" => Dump.atoms[Qualified(a.name)].title = a.title
        /\ \A c \in SeqToSet(data.concepts) :
               /\ Dump.concepts[Qualified(c.name)].final = c.final
               /\ Dump.concepts[Qualified(c.name)].links = {Qualified(n) : n \in LinkNames(c)}
               /\ c.title # "" => Dump.concepts[Qualified(c.name)].title = c.title
        /\ \A l \in SeqToSet(data.links) :
               /\ Dump.links[Qualified(l.name)].final = l.final
               /\ l.title # "" => Dump.links[Qualified(l.name)].title = l.title
               /\ l.mapping # "" => Dump.links[Qualified(l.name)].mapping = l.mapping

-----------------------------------------------------------------------------
(* Short and long form of a link.                                          *)

\* the raw links of the tree in the short form and in the long form with an
\* empty body: the concept and the position of the link
RawLinks(long) ==
    UNION {{<<c, j>> : j \in {j \in 1..Len(c.links) :
                                 c.links[j] = IF long
                                              THEN LongLink(c.links[j].name,
                                                            c.links[j].target, EmptyInfo)
                                              ELSE ShortLink(c.links[j].name,
                                                             c.links[j].target)}}
           : c \in SeqToSet(data.concepts)}

\* the declarations have the same attributes
SameLink(d, e) ==
    /\ d.normal = e.normal /\ d.base = e.base /\ d.target = e.target
    /\ d.mapping = e.mapping /\ d.required = e.required /\ d.default = e.default
    /\ d.title = e.title /\ d.final = e.final /\ d.is_atom = e.is_atom
    /\ d.constraints = e.constraints /\ d.abstract_constraints = e.abstract_constraints
    /\ Len(d.pointers) = Len(e.pointers)
    /\ \A i \in 1..Len(d.pointers) : d.pointers[i].pname = e.pointers[i].pname
    /\ d.own = <<>> /\ e.own = <<>>

-----------------------------------------------------------------------------
(* Declarations discovered by the final pass.                              *)

\* the declarations the final pass added: they are in the global index only
\* (genatom and _create_base_link with localmeta=None register nothing locally)
LateDeclarations ==
    {i \in 1..Len(globalindex) : globalindex[i].name \notin SeqToSet(localindex)}

\* the steps of construct that run once the order_* method of a kind returned
OrderedFrom(kind) ==
    AddPhases \cup {"done"} \cup
        CASE kind = "concept" -> {"order_links", "order_link_properties",
                                  "order_computables", "order_atoms"}
          [] kind = "link" -> {"order_link_properties", "order_computables", "order_atoms"}
          [] kind = "link_property" -> {"order_computables", "order_atoms"}
          [] OTHER -> {}

-----------------------------------------------------------------------------
(* Generic links of inline link definitions.                               *)

\* the position of a name in the local index
LocalPos(name) == CHOOSE i \in 1..Len(localindex) : localindex[i] = name

\* the links section declares the name
DeclaredLink(n) == \E i \in 1..Len(data.links) : data.links[i].name = n

\* the generic link the name of a link of a concept stands for: the link the
\* module declares, else the link the builtin module declares, else the link
\* read_concepts creates in the current module
GenericFor(n) ==
    IF DeclaredLink(n) THEN Qualified(n)
    ELSE IF \E i \in 1..Len(BuiltinDecls) :
                BuiltinDecls[i].kind = "link" /\ BuiltinDecls[i].name = QName(BuiltinModule, n)
         THEN QName(BuiltinModule, n)
         ELSE Qualified(n)

\* the generic links read_concepts created: registered in both indexes, declared
\* by no links section and not by the builtin module
AutoCreated ==
    {i \in 1..Len(globalindex) :
        /\ globalindex[i].kind = "link" /\ Generic(globalindex[i])
        /\ globalindex[i].name \in SeqToSet(localindex)
        /\ globalindex[i].name \notin {BuiltinDecls[j].name : j \in 1..Len(BuiltinDecls)}
        /\ globalindex[i].name \notin {Qualified(data.links[j].name) : j \in 1..Len(data.links)}}

\* the raw links of the concept registered as source
RawLinksOf(source) ==
    UNION {SeqToSet(c.links) : c \in {c \in SeqToSet(data.concepts) : Qualified(c.name) = source}}

\* C22: the base of every specialized link of a concept is the one generic link
\* its name stands for, registered in the global and in the local index before
\* the specialized link; a generic link read_concepts had to create is in the
\* current module with base builtins.link and is named by a link of a concept
\* whose name resolved to no link, so a name that resolves creates none.
C22_GenericLinkAutoCreated ==
    /\ \A i \in Specialized :
          globalindex[i].kind = "link" =>
              /\ globalindex[i].base = <<globalindex[i].normal>>
              /\ globalindex[i].normal
                    \in {GenericFor(ln.name) : ln \in RawLinksOf(globalindex[i].source)}
              /\ Has(globalindex, globalindex[i].normal)
              /\ Pos(globalindex, globalindex[i].normal) < i
              /\ Registered(globalindex[i].normal).kind = "link"
              /\ Generic(Registered(globalindex[i].normal))
              /\ globalindex[i].normal \in SeqToSet(localindex)
              /\ LocalPos(globalindex[i].normal) < LocalPos(globalindex[i].name)
    /\ \A i \in AutoCreated :
          /\ globalindex[i].module = data.module
          /\ globalindex[i].base = <<QName(BuiltinModule, "link")>>
          /\ \E c \in SeqToSet(data.concepts) : \E ln \in SeqToSet(c.links) :
                /\ globalindex[i].name = Qualified(ln.name)
                /\ GenericFor(ln.name) = Qualified(ln.name)

\* concepts A and B both declare link x and the module declares no link x: one
\* generic link m.x was created and is the base of both specializations
C22_OneGenericForTwoConcepts ==
    /\ Loaded
    /\ ~DeclaredLink("x")
    /\ \E i \in AutoCreated :
          /\ globalindex[i].name = Qualified("x")
          /\ Cardinality({j \in Specialized : globalindex[j].base = <<Qualified("x")>>}) = 2

-----------------------------------------------------------------------------
(* Unresolvable bases.                                                     *)

\* the names the sections of the module declare
DeclaredLocalNames ==
    {data.atoms[i].name : i \in 1..Len(data.atoms)}
        \cup {data.linkprops[i].name : i \in 1..Len(data.linkprops)}
        \cup {data.links[i].name : i \in 1..Len(data.links)}
        \cup {data.concepts[i].name : i \in 1..Len(data.concepts)}

\* a base name that no namespace resolves: it is not qualified, no section
\* declares it and the builtin module has no declaration of that name
Unresolvable(b) ==
    /\ b # "" /\ ~IsQualified(b)
    /\ b \notin DeclaredLocalNames
    /\ QName(BuiltinModule, b) \notin {BuiltinDecls[j].name : j \in 1..Len(BuiltinDecls)}

\* the base names a raw declaration gives: one name for an atom, a list otherwise
RawBases(kind, r) == IF kind = "atom" THEN {r.extends} \ {""} ELSE SeqToSet(r.extends)

\* the raw declarations of a kind
SectionOf(kind) ==
    CASE kind = "atom" -> data.atoms
      [] kind = "link_property" -> data.linkprops
      [] kind = "link" -> data.links
      [] kind = "concept" -> data.concepts

\* the declarations of a kind that give a base no namespace resolves
UnresolvedBaseOf(kind) ==
    {Qualified(r.name) : r \in {r \in SeqToSet(SectionOf(kind)) :
                                   \E b \in RawBases(kind, r) : Unresolvable(b)}}

\* the module is read with its own declarations: read_* skips the declarations
\* of the builtin module unless the import context has the builtin flag
ReadsOwn == data.builtin \/ data.module # BuiltinModule

\* the steps of construct up to the read_* method of a kind
ReadUpTo(kind) ==
    CASE kind = "atom" -> {"read_atoms"}
      [] kind = "link_property" -> {"read_atoms", "read_link_properties"}
      [] kind = "link" -> {"read_atoms", "read_link_properties", "read_links"}
      [] kind = "concept" -> ReadPhases

\* C23 as stated: once the read_* method of its kind has run, a declaration
\* with an unresolvable base has failed the load with an unresolved-base schema
\* error; the error of a load that failed so carries the context of a
\* declaration with an unresolvable base; no such declaration is merged or
\* inserted in the final index.
C23_UnresolvedBaseCarriesContext ==
    \A kind \in DeclaredKinds :
        (ReadsOwn /\ UnresolvedBaseOf(kind) # {} /\ pc \notin ReadUpTo(kind)) =>
            /\ Failed /\ IsSchemaError(err) /\ err.what = "unresolved"
            /\ err.ctx \in UNION {UnresolvedBaseOf(k) : k \in DeclaredKinds}
            /\ finalindex = <<>>
            /\ \A k \in DeclaredKinds : ordered[k] = <<>>

\* what holds of every kind: the load fails with an unresolved-base schema
\* error that names the base, nothing is merged and nothing is inserted
C23_UnresolvedBaseTerminal ==
    \A kind \in DeclaredKinds :
        (ReadsOwn /\ UnresolvedBaseOf(kind) # {} /\ pc \notin ReadUpTo(kind)) =>
            /\ Failed /\ IsSchemaError(err) /\ err.what = "unresolved"
            /\ \E b \in err.names : Unresolvable(b)
            /\ finalindex = <<>>
            /\ \A k \in DeclaredKinds : ordered[k] = <<>>

\* what holds of atoms: read_atoms re-raises the error with the context of the atom
C23_AtomBaseCarriesContext ==
    (ReadsOwn /\ UnresolvedBaseOf("atom") # {} /\ pc # "read_atoms") =>
        /\ Failed /\ err.cls = "MetaError" /\ err.what = "unresolved"
        /\ err.ctx \in UnresolvedBaseOf("atom")

-----------------------------------------------------------------------------
(* The is_local flag of a computable.                                      *)

\* the positions of the computables normalize_computables has resolved
ResolvedComputables ==
    {i \in 1..Len(globalindex) :
        globalindex[i].kind = "computable" /\ globalindex[i].expr.norm}

\* the declarations the expression of a computable references, self standing
\* for the source of the computable
ReferencedBy(d) == NodeReferences(d.expr, d.source)

\* C24 as stated: a resolved computable is local exactly when its expression
\* references no declaration other than its source, an expression that
\* references no declaration included.
C24_LocalIffOnlySource ==
    \A i \in ResolvedComputables :
        globalindex[i].is_local = "true"
            <=> ReferencedBy(globalindex[i]) \subseteq {globalindex[i].source}

\* no other source holds the computable: normalize_computables resolves a
\* computable once for every source whose pointers hold it
OwnedBySource(d) ==
    \A j \in 1..Len(globalindex) :
        HasPointer(globalindex[j], d.normal) => globalindex[j].name = d.source

\* what holds: a resolved computable that only its source holds is local
\* exactly when its expression references its source and nothing else
C24_LocalIffExactlySource ==
    \A i \in ResolvedComputables :
        /\ globalindex[i].is_local \in {"true", "false"}
        /\ OwnedBySource(globalindex[i]) =>
              (globalindex[i].is_local = "true"
                  <=> ReferencedBy(globalindex[i]) = {globalindex[i].source})

-----------------------------------------------------------------------------
(* Implicit root bases.                                                    *)

\* the root of each kind that has one: the declaration with no base
Roots ==
    {QName(BuiltinModule, "BaseObject"), QName(BuiltinModule, "link"),
     QName(BuiltinModule, "link_property")}

\* the base a declaration of the kind gets when it declares none
ImplicitBase(kind) ==
    CASE kind = "concept" -> QName(BuiltinModule, "Object")
      [] kind = "link" -> QName(BuiltinModule, "link")
      [] kind = "link_property" -> QName(BuiltinModule, "link_property")

\* the declarations of a kind that the section of the kind declares with no base
DeclaredRootless(kind) ==
    {Qualified(r.name) : r \in {r \in SeqToSet(SectionOf(kind)) : r.extends = <<>>}}

\* the generic declarations of the kinds that have an implicit base, once the
\* read_* method of the kind has run
Rooted ==
    {i \in 1..Len(globalindex) :
        /\ globalindex[i].kind \in {"concept", "link", "link_property"}
        /\ Generic(globalindex[i])
        /\ pc \notin ReadUpTo(globalindex[i].kind)}

-----------------------------------------------------------------------------
(* Properties of specialized links.                                        *)

\* the raw generic links of the name
RawGeneric(n) == {l \in SeqToSet(data.links) : l.name = n}

\* the name resolves to a link property: one the link-properties section
\* declares, one a generic link defines inline, or the root of the builtin module
ResolvesToProperty(n) ==
    \/ \E i \in 1..Len(data.linkprops) : data.linkprops[i].name = n
    \/ \E l \in SeqToSet(data.links) : n \in PropNames(l)
    \/ n = "link_property"

\* the generic link that the link of a concept specializes defines the property
BaseDefines(ln, p) == \E l \in RawGeneric(ln.name) : p.name \in PropNames(l)

\* the properties of links of concepts that a load must refuse: <<c, ln, p>>
RefusedProperties ==
    UNION {UNION {{<<c, ln, p>> : p \in {p \in SeqToSet(ln.props) :
                                           ~ResolvesToProperty(p.name) \/ ~BaseDefines(ln, p)}}
                  : ln \in SeqToSet(c.links)}
           : c \in SeqToSet(data.concepts)}

\* the specialized link properties whose source is a specialized link
PropertiesOfSpecialized ==
    {i \in Specialized :
        /\ globalindex[i].kind = "link_property"
        /\ Has(globalindex, globalindex[i].source)
        /\ ~Generic(Registered(globalindex[i].source))}

\* the generic link properties read_properties_for_link defined inline
InlineProperties ==
    {i \in 1..Len(globalindex) :
        /\ globalindex[i].kind = "link_property" /\ Generic(globalindex[i])
        /\ globalindex[i].name \in SeqToSet(localindex)
        /\ globalindex[i].name \notin {BuiltinDecls[j].name : j \in 1..Len(BuiltinDecls)}
        /\ globalindex[i].name
              \notin {Qualified(data.linkprops[j].name) : j \in 1..Len(data.linkprops)}}

\* the errors of read_properties_for_link on a property of a specialized link
PropertyErrors == {"undefined_property", "property_not_defined"}

\* C26: a property of a link of a concept whose name resolves to no link
\* property, or that the generic link does not define, fails the load in
\* read_concepts with a schema error; the property is registered in no index and
\* the specialized link that declares it is never registered, so nothing is
\* attached to it.  A property a generic link defines inline is a generic link
\* property of the current module with base builtins.link_property, registered
\* in both indexes before the specialization of the property.
C26_OnlyGenericLinksDefineProperties ==
    /\ \A t \in RefusedProperties :
          /\ pc \in ReadPhases \/ (Failed /\ IsSchemaError(err) /\ err.what \in PropertyErrors)
          /\ ~Has(globalindex, LinkNameOf(t[1], t[2]))
          /\ \A i \in Specialized :
                globalindex[i].kind = "link_property"
                    => globalindex[i].source # LinkNameOf(t[1], t[2])
    /\ \A i \in PropertiesOfSpecialized :
          HasPointer(Registered(Registered(globalindex[i].source).base[1]),
                     globalindex[i].normal)
    /\ \A i \in InlineProperties :
          /\ globalindex[i].module = data.module
          /\ globalindex[i].base = <<QName(BuiltinModule, "link_property")>>
          /\ \E l \in SeqToSet(data.links) : \E p \in SeqToSet(l.props) :
                globalindex[i].name = Qualified(p.name)
          /\ \A j \in Specialized :
                globalindex[j].base = <<globalindex[i].name>> =>
                    /\ i < j
                    /\ LocalPos(globalindex[i].name) < LocalPos(globalindex[j].name)

\* link l1 of concept A declares property p2, which the link-properties section
\* declares and the generic link l1 does not define: the load fails in
\* read_concepts and neither the property nor the specialized link is registered
C26_PropertyOfGenericLinkMissing ==
    /\ Failed /\ err.what = "property_not_defined"
    /\ \E t \in RefusedProperties :
          /\ ResolvesToProperty(t[3].name) /\ ~BaseDefines(t[2], t[3])
          /\ ~Has(globalindex, LinkNameOf(t[1], t[2]))
    /\ Specialized = {}

-----------------------------------------------------------------------------
(* Computables and stored pointers of one source.                          *)

\* the qualified name the name of a property of a generic link stands for
PropertyFor(n) ==
    IF n = "link_property" /\ \A i \in 1..Len(data.linkprops) : data.linkprops[i].name # n
    THEN QName(BuiltinModule, n) ELSE Qualified(n)

\* the qualified pointer names of the stored pointers a raw source declares:
\* the links of a concept, the properties of a link
StoredNames(kind, r) ==
    IF kind = "concept" THEN {GenericFor(ln.name) : ln \in SeqToSet(r.links)}
    ELSE {PropertyFor(p.name) : p \in SeqToSet(r.props)}

\* the sources of a kind that declare a computable under the qualified pointer
\* name of a stored pointer they declare themselves
ClashingSources(kind) ==
    {r \in SeqToSet(SectionOf(kind)) :
        \E cm \in SeqToSet(r.comps) : Qualified(cm.name) \in StoredNames(kind, r)}

\* the own pointers of d under a pointer name, by the kind of the declaration
OwnOfKind(d, pname, kinds) ==
    {i \in 1..Len(d.own) :
        d.own[i].pname = pname /\ KindOf(globalindex, d.own[i].decl) \in kinds}

\* C27: a link or a concept that declares a computable under the pointer name
\* of a link or property it declares itself fails the load with a schema error
\* that carries the context of the computable, when its computables are read;
\* no source of the index holds a computable and a stored pointer of its own
\* under one pointer name.
C27_ComputableConflictsWithStored ==
    /\ \A kind \in {"link", "concept"} :
          (ReadsOwn /\ ClashingSources(kind) # {} /\ pc \notin ReadUpTo(kind)) =>
              /\ Failed /\ err.cls = "MetaError" /\ err.what = "computable_conflict"
              /\ \E k \in {"link", "concept"} : \E r \in ClashingSources(k) :
                    err.names \subseteq StoredNames(k, r)
    /\ \A i \in 1..Len(globalindex) : \A j \in 1..Len(globalindex[i].own) :
          OwnOfKind(globalindex[i], globalindex[i].own[j].pname, {"computable"}) = {}
              \/ OwnOfKind(globalindex[i], globalindex[i].own[j].pname,
                           {"link", "link_property"}) = {}

\* concept A declares link x and computable x: read_concepts registered the
\* link and then refused the computable
C27_ComputableNamedAsLinkRefused ==
    /\ Failed /\ err.what = "computable_conflict" /\ err.names = {Qualified("x")}
    /\ \E r \in ClashingSources("concept") : r.name = "A"
    /\ ClashingSources("link") = {}
    /\ OwnOfKind(Registered(Qualified("A")), Qualified("x"), {"link"}) # {}
    /\ OwnOfKind(Registered(Qualified("A")), Qualified("x"), {"computable"}) = {}

-----------------------------------------------------------------------------
(* The value kind of the links of one name.                                *)

\* the kind of the declaration a raw target stands for, "" when it stands for none
TargetKind(t) ==
    IF \E i \in 1..Len(BuiltinDecls) : BuiltinDecls[i].name = ResolvedTarget(t)
    THEN Get(BuiltinDecls, ResolvedTarget(t)).kind
    ELSE IF \E i \in 1..Len(data.atoms) : Qualified(data.atoms[i].name) = ResolvedTarget(t)
    THEN "atom"
    ELSE IF \E i \in 1..Len(data.concepts) : Qualified(data.concepts[i].name) = ResolvedTarget(t)
    THEN "concept"
    ELSE ""

\* the raw concepts that declare links of one name to an atom and to a concept
MixedKinds ==
    {c \in SeqToSet(data.concepts) :
        \E j \in 1..Len(c.links) : \E k \in 1..Len(c.links) :
            /\ c.links[j].name = c.links[k].name
            /\ TargetKind(c.links[j].target) = "atom"
            /\ TargetKind(c.links[k].target) = "concept"}

\* the specialized links to a concept whose generic link is marked atom-valued
ConceptLinksOfAtomLink ==
    {i \in Specialized :
        /\ globalindex[i].kind = "link"
        /\ KindOf(globalindex, globalindex[i].target) = "concept"
        /\ Has(globalindex, globalindex[i].normal)
        /\ Registered(globalindex[i].normal).is_atom = "true"}

\* C28: a concept that declares links of one name to an atom and to a concept
\* does not get past order_concepts, which returns no list; a specialized link
\* to a concept whose generic link is marked atom-valued does not get past
\* order_links, and when it is order_links that fails the load, the error is the
\* target conflict of that generic link.
C28_OneValueKindPerName ==
    /\ (ReadsOwn /\ MixedKinds # {}) =>
          \/ pc \in ReadPhases \cup {"order_concepts"}
          \/ Failed /\ IsSchemaError(err) /\ ordered["concept"] = <<>>
    /\ ConceptLinksOfAtomLink # {} =>
          \/ pc \in ReadPhases \cup {"order_concepts", "order_links"}
          \/ /\ Failed /\ IsSchemaError(err) /\ ordered["link"] = <<>>
             /\ ordered["concept"] # <<>> =>
                   /\ err.what = "target_conflict"
                   /\ err.names \subseteq
                         {globalindex[i].normal : i \in ConceptLinksOfAtomLink}

\* concept A declares link x to str and link x to concept B: order_concepts
\* fails with the target conflict of x
C28_AtomAndConceptUnderOneName ==
    /\ Failed /\ err.what = "target_conflict" /\ err.names = {Qualified("x")}
    /\ \E c \in MixedKinds : c.name = "A"
    /\ ordered["concept"] = <<>>
    /\ Cardinality({i \in Specialized : globalindex[i].normal = Qualified("x")}) = 2

-----------------------------------------------------------------------------
(* The precision constraint.                                               *)

\* the mapping given is a precision constraint
PrecisionGiven == data.raw.key = "precision"

\* the precision constraint is given as a pair whose scale is not below its
\* precision
ScaleTooLarge ==
    /\ ~IsInt(data.raw.value)
    /\ data.raw.value[2][2][2] >= data.raw.value[2][1][2]

\* C29: a precision constraint given as a pair is accepted only when its scale is
\* below its precision, and refused with an error otherwise; a bare integer is
\* accepted, whatever it is; and the representation of the constraint made of an
\* accepted input is the mapping that was given, a bare integer for a bare
\* integer and the same pair for a pair.
C29_PrecisionBoundsAndRoundTrip ==
    PrecisionGiven =>
        /\ pc # "construct" => (Failed <=> ScaleTooLarge)
        /\ Failed => err = PyError("ValueError", "scale")
        /\ pc = "represented" => data.repr = data.raw

\* what holds of the precision constraint: the bounds as stated, a pair is
\* represented as the same pair, and a bare integer p as the pair [p, 0]
C29_PrecisionBoundsAndPairs ==
    PrecisionGiven =>
        /\ pc # "construct" => (Failed <=> ScaleTooLarge)
        /\ Failed => err = PyError("ValueError", "scale")
        /\ pc = "represented" =>
              data.repr = IF IsInt(data.raw.value)
                          THEN Mapping("precision", PyList(<<data.raw.value, PyInt(0)>>))
                          ELSE data.raw

\* the bare integer 3 was constructed and represented, as the pair [3, 0]
C29_BareIntegerRepresentedAsPair ==
    /\ pc = "represented"
    /\ data.raw = Mapping("precision", PyInt(3))
    /\ data.obj.value = PyTuple(<<PyInt(3), PyInt(0)>>)
    /\ data.repr = Mapping("precision", PyList(<<PyInt(3), PyInt(0)>>))

-----------------------------------------------------------------------------
(* The kind an adapter constructs.                                         *)

\* the class of proto the adapter of a key is named for
NamedKind(key) ==
    CASE key = "min-length" -> "AtomConstraintMinLength"
      [] key = "max-length" -> "AtomConstraintMaxLength"
      [] key = "min-value" -> "AtomConstraintMinValue"
      [] key = "min-value-ex" -> "AtomConstraintMinExValue"
      [] key = "max-value" -> "AtomConstraintMaxValue"
      [] key = "max-value-ex" -> "AtomConstraintMaxExValue"
      [] key = "rounding" -> "AtomConstraintRounding"
      [] key = "regexp" -> "AtomConstraintRegExp"
      [] key = "expr" -> "AtomConstraintExpr"
      [] key = "precision" -> "AtomConstraintPrecision"

\* the keys of the adapters of one value
ValueKeys ==
    {"min-length", "max-length", "min-value", "min-value-ex", "max-value",
     "max-value-ex", "rounding", "regexp", "expr"}

\* the mapping given was constructed into a constraint
WasConstructed == pc \in {"represent", "represented"}

\* C30: the adapter of each of the keys min-length, max-length, min-value,
\* min-value-ex, max-value, max-value-ex, rounding, regexp and expr constructs
\* a constraint of the kind it is named for, initialized as that kind (for
\* max-value-ex an exclusive upper bound, not an inclusive one), and the
\* representation of that constraint is the mapping that was given.
C30_AdaptersConstructNamedKind ==
    data.raw.key \in ValueKeys =>
        /\ WasConstructed =>
              /\ data.obj.cls = NamedKind(data.raw.key)
              /\ data.obj.init = NamedKind(data.raw.key)
        /\ pc = "represented" => data.repr = data.raw

\* what holds of these adapters: the constraint is of the class the adapter is
\* named for; it is initialized as that class, except that of max-value-ex,
\* which is initialized as AtomConstraintMaxValue; the representation is the
\* mapping given, except that an expr comes back stripped of the spaces and
\* newlines at its ends
C30_AdaptersButMaxExAndExpr ==
    data.raw.key \in ValueKeys =>
        /\ WasConstructed =>
              /\ data.obj.cls = NamedKind(data.raw.key)
              /\ data.obj.init = IF data.raw.key = "max-value-ex"
                                 THEN "AtomConstraintMaxValue"
                                 ELSE NamedKind(data.raw.key)
        /\ pc = "represented" =>
              data.repr = IF data.raw.key = "expr"
                          THEN Mapping("expr", StripChars(data.raw.value))
                          ELSE data.raw
        /\ Failed <=> (pc # "construct" /\ data.raw = Mapping("rounding", PyStr(<<"nearest">>)))

\* a max-value-ex of 1 was constructed by the initializer of the inclusive
\* upper bound
C30_MaxExInitializedAsMaxValue ==
    /\ WasConstructed
    /\ data.raw = Mapping("max-value-ex", PyInt(1))
    /\ data.obj = ProtoInit("AtomConstraintMaxExValue", "AtomConstraintMaxValue", PyInt(1))

\* an expr given with a space before it was represented without the space
C30_ExprRepresentedStripped ==
    /\ pc = "represented"
    /\ data.raw = Mapping("expr", PyStr(<<" ", "a">>))
    /\ data.repr = Mapping("expr", PyStr(<<"a">>))

====
